---------------------------- MODULE Spec2Model ----------------------------
(***************************************************************************)
(* A model of music-librarian's metadata override core                     *)
(* (src/music_librarian/cli.py): the metadata.txt parser, the validator,   *)
(* the per-track lookup, the three-layer merge, the template generator     *)
(* and the cover art selector.                                             *)
(*                                                                         *)
(* Python strings are TLA+ strings (TLC evaluates Len, SubSeq and \o on    *)
(* them).  A Python dict is a sequence of records [k |-> key, v |-> value] *)
(* with pairwise distinct keys, in insertion order, which is the order     *)
(* dict.items() iterates in.                                               *)
(***************************************************************************)
EXTENDS Integers, Sequences, FiniteSets, TLC

VARIABLES
    \* parse_metadata_file
    content,                \* the text handed to parse_metadata_file
    lines,                  \* content.split("\n"), evaluated once on loop entry
    line_idx,               \* number of lines consumed by the loop
    result,                 \* [album |-> dict, files |-> dict of dicts]
    current_file,           \* None or Some(filename)
    in_malformed_section,   \* the parser's discard flag
    parse_pc,               \* "idle", "loop" or "done"
    \* merge_metadata
    album_metadata,         \* dict of album-wide fields
    file_metadata,          \* dict of the track's per-file overrides
    source_file,            \* the source-file tag layer: no path, unreadable, or read
    merged,                 \* the dict merge_metadata returns
    merge_pc,               \* "idle", "call" or "done"
    \* process_directory: validation and the per-track metadata lookup
    metadata,               \* the parsed metadata.txt, or the empty default
    all_audio_files,        \* the audio files found, as the disk reports them
    audio_idx,              \* number of audio files the track loop has handled
    raised,                 \* None, or the filename a raised ValueError names
    export_pc,              \* "idle", "validate", "tracks", "raised" or "done"
    \* find_cover_art
    available_files,        \* the directory listing handed to find_cover_art
    cover_art,              \* None, or the filename find_cover_art returns
    cover_pc,               \* "idle", "call" or "done"
    \* generate_metadata_template, and the parse of what it rendered
    audio_files,            \* the audio file names, in the order given
    tmpl_album_metadata,    \* the generator's album_metadata
    tmpl_file_metadata,     \* the generator's file_metadata: filename -> dict
    template_only,          \* the generator's template_only flag
    template_pc,            \* "idle", "call", "rendered" or "parsed"
    \* build_opusenc_command and apply_metadata_to_file, on a merged dict
    quality,                \* None, or the bitrate string
    encode_album,           \* the album scope the merged dict was made from
    encode_file,            \* the file scope the merged dict was made from
    merged_metadata,        \* the dict handed to the encoder or to the tag writer
    cmd,                    \* the argument list build_opusenc_command returns
    written_tags,           \* the tag assignments apply_metadata_to_file makes
    encode_pc,              \* "idle", "call", "built" or "tagged"
    \* export and process_directory, and the files they touch
    force,                  \* the --force flag
    tools_on_path,          \* whether shutil.which finds opusenc and rsgain
    dirs_left,              \* source directories the export loop has yet to take
    attempted,              \* source directories process_directory was called for
    source_tree,            \* what the current source directory holds
    dest_files,             \* the destination directory: relative path -> content
    processed,              \* process_directory's counters and lists
    skipped,
    errors,
    cover_art_copied,
    calls,                  \* the encoder, copy and rsgain runs of this directory
    total_processed,        \* export's totals
    total_skipped,
    total_errors,
    exit_code,              \* None while export runs, then its exit status
    run_pc,                 \* "idle", "export", "tracks", "cover", "replaygain",
                            \* "finished" or "exited"
    \* extract_metadata_from_directory, and the tree it walks
    extract_force,          \* its force argument
    extract_template_only,  \* its template_only argument
    disk,                   \* the directories of the tree and what each holds
    metadata_txt,           \* directory -> None, or the content of its metadata.txt
    album_directories,      \* what find_album_directories returned
    album_idx,              \* album directories the loop has handled
    extract_processed,      \* total_processed, total_skipped and total_errors of
    extract_skipped,        \* extract_metadata_from_directory
    extract_errors,
    extract_pc,             \* "idle", "find", "loop", "returned" or "raised"
    \* the export command, from its environment checks to its loop
    source_root,            \* MUSIC_SOURCE_ROOT: None, or its value
    dest_root,              \* MUSIC_DEST_ROOT: None, or its value
    source_directories,     \* the SOURCE_DIRECTORIES arguments
    validated,              \* arguments the validation loop has passed
    handled,                \* arguments process_directory was called for
    made_dirs,              \* destination directories created
    echoed,                 \* the error messages written to the terminal
    args_exit_code,         \* -1 while the command runs, then its exit status
    args_pc                 \* "idle", "environment", "validate", "process",
                            \* "finished", "exited" or "crashed"

parseVars == <<content, lines, line_idx, result, current_file, in_malformed_section, parse_pc>>

mergeVars == <<album_metadata, file_metadata, source_file, merged, merge_pc>>

exportVars == <<metadata, all_audio_files, audio_idx, raised, export_pc>>

coverVars == <<available_files, cover_art, cover_pc>>

templateVars ==
    <<audio_files, tmpl_album_metadata, tmpl_file_metadata, template_only, template_pc>>

encodeVars ==
    <<quality, encode_album, encode_file, merged_metadata, cmd, written_tags, encode_pc>>

runVars ==
    <<force, tools_on_path, dirs_left, attempted, source_tree, dest_files, processed,
      skipped, errors, cover_art_copied, calls, total_processed, total_skipped,
      total_errors, exit_code, run_pc>>

extractVars ==
    <<extract_force, extract_template_only, disk, metadata_txt, album_directories,
      album_idx, extract_processed, extract_skipped, extract_errors, extract_pc>>

argsVars ==
    <<source_root, dest_root, source_directories, validated, handled, made_dirs, echoed,
      args_exit_code, args_pc>>

vars ==
    <<parseVars, mergeVars, exportVars, coverVars, templateVars, encodeVars, runVars,
      extractVars, argsVars>>

---------------------------------------------------------------------------
(* Bounds of the model *)

\* Longest metadata.txt, in lines.
MaxLines == 4

\* Most fields in the album scope and in the file scope handed to merge_metadata.
MaxFields == 2

\* Most tags read from a source file.
MaxSourceTags == 1

\* Most audio files in a directory, and most file sections in its metadata.txt.
MaxAudioFiles == 2
MaxSections == 2

\* Most files in a directory listing searched for cover art.
MaxListing == 3

\* Most album fields, and most audio files, handed to the template generator.
MaxTemplateFields == 1
MaxTemplateFiles == 2

\* Most per-file fields of a dict handed to the encoder or to the tag writer.
MaxEncodeFields == 2

---------------------------------------------------------------------------
(* Python str primitives *)

CharAt(s, i) == SubSeq(s, i, i)

Substr(s, from, to) == IF from > to THEN "" ELSE SubSeq(s, from, to)

\* str.strip() with no argument strips whitespace.
IsSpace(c) == c \in {" ", "\t", "\r", "\n"}

StartsWith(s, prefix) ==
    /\ Len(s) >= Len(prefix)
    /\ Substr(s, 1, Len(prefix)) = prefix

EndsWith(s, suffix) ==
    /\ Len(s) >= Len(suffix)
    /\ Substr(s, Len(s) - Len(suffix) + 1, Len(s)) = suffix

RECURSIVE LStrip(_)
LStrip(s) ==
    IF Len(s) > 0 /\ IsSpace(CharAt(s, 1)) THEN LStrip(Substr(s, 2, Len(s))) ELSE s

RECURSIVE RStrip(_)
RStrip(s) ==
    IF Len(s) > 0 /\ IsSpace(CharAt(s, Len(s)))
    THEN RStrip(Substr(s, 1, Len(s) - 1))
    ELSE s

Strip(s) == LStrip(RStrip(s))

\* Index of the first occurrence of the character c in s, 0 if there is none.
Find(s, c) ==
    LET hits == {i \in 1..Len(s) : CharAt(s, i) = c}
    IN  IF hits = {} THEN 0 ELSE CHOOSE i \in hits : \A j \in hits : i <= j

Contains(s, c) == Find(s, c) # 0

\* s.split(sep) for a one-character separator: always at least one piece.
RECURSIVE Split(_, _)
Split(s, sep) ==
    LET i == Find(s, sep)
    IN  IF i = 0 THEN <<s>>
        ELSE <<Substr(s, 1, i - 1)>> \o Split(Substr(s, i + 1, Len(s)), sep)

\* sep.join(pieces)
RECURSIVE Join(_, _)
Join(pieces, sep) ==
    IF Len(pieces) = 0 THEN ""
    ELSE IF Len(pieces) = 1 THEN pieces[1]
    ELSE pieces[1] \o sep \o Join(Tail(pieces), sep)

---------------------------------------------------------------------------
(* Python dict primitives *)

EmptyDict == <<>>

DictKeys(d) == {d[i].k : i \in 1..Len(d)}

DictHas(d, key) == \E i \in 1..Len(d) : d[i].k = key

\* d[key], for a key of d
DictGet(d, key) == d[CHOOSE i \in 1..Len(d) : d[i].k = key].v

\* d[key] = value: an existing key keeps its position, a new one is appended.
DictSet(d, key, value) ==
    IF DictHas(d, key)
    THEN [i \in 1..Len(d) |-> IF d[i].k = key THEN [k |-> key, v |-> value] ELSE d[i]]
    ELSE Append(d, [k |-> key, v |-> value])

\* d1 == d2 for dicts of strings: the same keys with the same values, in any order.
DictEq(d1, d2) ==
    /\ DictKeys(d1) = DictKeys(d2)
    /\ \A key \in DictKeys(d1) : DictGet(d1, key) = DictGet(d2, key)

\* d1 == d2 for dicts of dicts of strings.
DictOfDictsEq(d1, d2) ==
    /\ DictKeys(d1) = DictKeys(d2)
    /\ \A key \in DictKeys(d1) : DictEq(DictGet(d1, key), DictGet(d2, key))

\* Optional[str]
None == [isNone |-> TRUE, str |-> ""]
Some(s) == [isNone |-> FALSE, str |-> s]

\* Python truthiness of an Optional[str]: None and "" are both false.
Truthy(opt) == ~opt.isNone /\ opt.str # ""

---------------------------------------------------------------------------
(* parse_metadata_file *)

\* line.startswith("file:") and line.endswith(":")
IsValidFileSection(line) == StartsWith(line, "file:") /\ EndsWith(line, ":")

\* elif line.startswith("file:")
IsMalformedFileSection(line) == StartsWith(line, "file:") /\ ~EndsWith(line, ":")

\* if not line or line.startswith("#"): continue
IsSkipped(line) == line = "" \/ StartsWith(line, "#")

\* The valid file section branch.
OpenFileSection(st, line) ==
    LET filename == Strip(Substr(line, 6, Len(line) - 1))
    IN  [st EXCEPT !.current_file = Some(filename),
                   !.in_malformed_section = FALSE,
                   !.result.files = IF DictHas(@, filename)
                                    THEN @
                                    ELSE DictSet(@, filename, EmptyDict)]

\* A plausible slip: the discard flag is not raised.
EnterMalformedSectionNoFlag(st) ==
    [st EXCEPT !.current_file = None]

\* The malformed file section branch.
EnterMalformedSection(st) ==
    [st EXCEPT !.current_file = None, !.in_malformed_section = TRUE]

\* The key: value branch, reached outside a malformed section.
AssignField(st, line) ==
    LET i     == Find(line, ":")
        key   == Strip(Substr(line, 1, i - 1))
        value == Strip(Substr(line, i + 1, Len(line)))
    IN  IF Truthy(st.current_file)
        THEN [st EXCEPT !.result.files =
                 DictSet(@, st.current_file.str,
                         DictSet(DictGet(@, st.current_file.str), key, value))]
        ELSE [st EXCEPT !.result.album = DictSet(@, key, value)]

\* One iteration of the loop over content.split("\n").
ParseLine(st, raw) ==
    LET line == Strip(raw)
    IN  IF IsSkipped(line) THEN st
        ELSE IF IsValidFileSection(line) THEN OpenFileSection(st, line)
        ELSE IF IsMalformedFileSection(line) THEN EnterMalformedSection(st)
        ELSE IF st.in_malformed_section THEN st
        ELSE IF Contains(line, ":") THEN AssignField(st, line)
        ELSE st

\* The parser's locals on entry.
ParseStart ==
    [result |-> [album |-> EmptyDict, files |-> EmptyDict],
     current_file |-> None,
     in_malformed_section |-> FALSE]

\* parse_metadata_file(text), as a function: the state after the last line.
RECURSIVE ParseLines(_, _)
ParseLines(st, ls) ==
    IF Len(ls) = 0 THEN st ELSE ParseLines(ParseLine(st, Head(ls)), Tail(ls))

parse_metadata_file(text) == ParseLines(ParseStart, Split(text, "\n")).result

\* The lines a metadata.txt of the model is made of.
LinePool ==
    {"a: x", " a : y:z ", "b: w", "file: t:", "file:u :", "file: t", "file::",
     "#a: c", "junk", ""}

RECURSIVE LineSeqs(_)
LineSeqs(n) ==
    IF n = 0 THEN {<<>>}
    ELSE LET shorter == LineSeqs(n - 1)
         IN  shorter \cup {Append(ls, l) : ls \in {s \in shorter : Len(s) = n - 1},
                                          l \in LinePool}

Contents == {Join(ls, "\n") : ls \in LineSeqs(MaxLines)}

ParserState ==
    [result |-> result, current_file |-> current_file,
     in_malformed_section |-> in_malformed_section]

ParseIdle ==
    /\ content = ""
    /\ lines = <<>>
    /\ line_idx = 0
    /\ result = ParseStart.result
    /\ current_file = None
    /\ in_malformed_section = FALSE
    /\ parse_pc = "idle"

ParseInit ==
    /\ content \in Contents
    /\ lines = Split(content, "\n")
    /\ line_idx = 0
    /\ result = ParseStart.result
    /\ current_file = ParseStart.current_file
    /\ in_malformed_section = ParseStart.in_malformed_section
    /\ parse_pc = "loop"

\* for line in content.split("\n"): one iteration
ParseNextLine ==
    /\ parse_pc = "loop"
    /\ line_idx < Len(lines)
    /\ LET st == ParseLine(ParserState, lines[line_idx + 1])
       IN  /\ result' = st.result
           /\ current_file' = st.current_file
           /\ in_malformed_section' = st.in_malformed_section
    /\ line_idx' = line_idx + 1
    /\ UNCHANGED <<content, lines, parse_pc>>
    /\ UNCHANGED <<mergeVars, exportVars, coverVars, templateVars, encodeVars, runVars,
                 extractVars, argsVars>>

\* return result
ParseReturn ==
    /\ parse_pc = "loop"
    /\ line_idx = Len(lines)
    /\ parse_pc' = "done"
    /\ UNCHANGED <<content, lines, line_idx, result, current_file, in_malformed_section>>
    /\ UNCHANGED <<mergeVars, exportVars, coverVars, templateVars, encodeVars, runVars,
                 extractVars, argsVars>>

ParseNext == ParseNextLine \/ ParseReturn

---------------------------------------------------------------------------
(* What the claims about parse_metadata_file speak of, read off the text   *)
(* alone (never off the parser's own locals).                              *)

\* The i-th line of the text, trimmed.
LineAt(i) == Strip(lines[i])

IsHeaderLine(i) == StartsWith(LineAt(i), "file:")
IsValidHeaderLine(i) == IsHeaderLine(i) /\ EndsWith(LineAt(i), ":")
IsMalformedHeaderLine(i) == IsHeaderLine(i) /\ ~EndsWith(LineAt(i), ":")

\* A `key: value` line: not blank, not a comment, not a header, with a colon.
IsKeyValueLine(i) ==
    /\ LineAt(i) # ""
    /\ ~StartsWith(LineAt(i), "#")
    /\ ~IsHeaderLine(i)
    /\ Contains(LineAt(i), ":")

KeyOf(i) == Strip(Substr(LineAt(i), 1, Find(LineAt(i), ":") - 1))
ValueOf(i) == Strip(Substr(LineAt(i), Find(LineAt(i), ":") + 1, Len(LineAt(i))))

\* The name a valid header line gives.
HeaderName(i) == Strip(Substr(LineAt(i), 6, Len(LineAt(i)) - 1))

\* The last header line (valid or malformed) before line i, 0 if there is none.
LastHeaderBefore(i) ==
    LET hs == {j \in 1..(i - 1) : IsHeaderLine(j)}
    IN  IF hs = {} THEN 0 ELSE CHOOSE j \in hs : \A h \in hs : h <= j

\* Line i lies in the discarded region of a malformed header: it is the
\* malformed header itself, or a line after it with no valid header in between.
InMalformedRegion(i) ==
    \/ IsMalformedHeaderLine(i)
    \/ /\ ~IsValidHeaderLine(i)
       /\ LastHeaderBefore(i) # 0
       /\ IsMalformedHeaderLine(LastHeaderBefore(i))

\* The first n lines of the text without the malformed regions.
RECURSIVE KeptLines(_)
KeptLines(n) ==
    IF n = 0 THEN <<>>
    ELSE IF InMalformedRegion(n) THEN KeptLines(n - 1)
    ELSE Append(KeptLines(n - 1), lines[n])

ResultEq(r1, r2) ==
    /\ DictEq(r1.album, r2.album)
    /\ DictOfDictsEq(r1.files, r2.files)

---------------------------------------------------------------------------
(* C1: a malformed `file:` header (no trailing colon) and every line after *)
(* it up to the next valid header or the end of input contribute nothing:  *)
(* after any number of lines, the parser's result is the result of parsing *)
(* the same lines with the malformed regions cut out, so album fields and  *)
(* valid sections before and after are parsed unchanged, and only a valid  *)
(* header ends the discarding.                                             *)
C1_MalformedSectionIsolated ==
    parse_pc \in {"loop", "done"} =>
        ResultEq(result, ParseLines(ParseStart, KeptLines(line_idx)).result)

\* A finished parse of: malformed header, key: value line, valid header,
\* key: value line; the last one was stored, the one in the region was not.
C1_Witness ==
    /\ parse_pc = "done"
    /\ \E j \in 1..Len(lines) :
          /\ IsMalformedHeaderLine(j)
          /\ j + 3 <= Len(lines)
          /\ IsKeyValueLine(j + 1)
          /\ IsValidHeaderLine(j + 2)
          /\ HeaderName(j + 2) # ""
          /\ IsKeyValueLine(j + 3)
          /\ DictHas(result.files, HeaderName(j + 2))
          /\ DictHas(DictGet(result.files, HeaderName(j + 2)), KeyOf(j + 3))
          /\ result.album = EmptyDict

---------------------------------------------------------------------------
(* C7: every `key: value` line goes to exactly one scope: to files[name]   *)
(* of the most recent valid header if a file section is open, to album     *)
(* scope if no file section has been opened yet.  (Lines in the discarded  *)
(* region of a malformed header are C1's and are left out here.)           *)
C7_AssignedScopeStep ==
    LET i    == line_idx + 1
        h    == LastHeaderBefore(i)
        name == HeaderName(h)
    IN  (/\ parse_pc = "loop"
         /\ line_idx' = line_idx + 1
         /\ IsKeyValueLine(i)
         /\ ~InMalformedRegion(i))
        => IF h = 0
           THEN /\ result'.album = DictSet(result.album, KeyOf(i), ValueOf(i))
                /\ result'.files = result.files
           ELSE /\ DictHas(result.files, name)
                /\ result'.files =
                       DictSet(result.files, name,
                               DictSet(DictGet(result.files, name), KeyOf(i), ValueOf(i)))
                /\ result'.album = result.album

C7_EveryFieldToItsScope == [][C7_AssignedScopeStep]_vars

---------------------------------------------------------------------------
(* C8: the result has one files entry per distinct header name, and the    *)
(* entry of a name holds the fields of all sections of that name, each     *)
(* with the value written last: reopening a section resets nothing.        *)

\* The key: value lines among the first n that were written inside a section
\* of the given name.
SectionLines(n, name) ==
    {i \in 1..n : /\ IsKeyValueLine(i)
                  /\ ~InMalformedRegion(i)
                  /\ LastHeaderBefore(i) # 0
                  /\ HeaderName(LastHeaderBefore(i)) = name}

\* The fields a set of key: value lines leaves behind, last write winning.
LastWritten(S) ==
    [key \in {KeyOf(i) : i \in S} |->
        ValueOf(CHOOSE i \in S : KeyOf(i) = key /\ \A j \in S : KeyOf(j) = key => j <= i)]

DictAsMap(d) == [key \in DictKeys(d) |-> DictGet(d, key)]

HeaderNames(n) == {HeaderName(i) : i \in {j \in 1..n : IsValidHeaderLine(j)}}

C8_SectionsAccumulate ==
    parse_pc \in {"loop", "done"} =>
        /\ DictKeys(result.files) = HeaderNames(line_idx)
        /\ Len(result.files) = Cardinality(HeaderNames(line_idx))
        /\ \A name \in HeaderNames(line_idx) :
              DictAsMap(DictGet(result.files, name))
                  = LastWritten(SectionLines(line_idx, name))

---------------------------------------------------------------------------
(* merge_metadata *)

\* The field names of the model: the special-cased ones and two plain ones.
MergeKeys == {"title", "album", "artist", "albumartist", "date", "genre"}

\* merge_metadata never looks at a value, so each layer gives each field a
\* value of its own: a merged value tells the layer it came from.
LayerValue(layer, key) == layer \o ":" \o key

\* The dicts of at most n fields of one layer, in every insertion order.
RECURSIVE LayerDicts(_, _)
LayerDicts(layer, n) ==
    IF n = 0 THEN {EmptyDict}
    ELSE LET shorter == LayerDicts(layer, n - 1)
         IN  shorter \cup
             UNION {{Append(d, [k |-> key, v |-> LayerValue(layer, key)]) :
                        key \in MergeKeys \ DictKeys(d)} :
                    d \in {e \in shorter : Len(e) = n - 1}}

\* The source-file tag layer: source_file_path is None, or read_metadata_from_file
\* raises, or it returns the file's tags.
SourceFiles ==
    {[kind |-> "no_path", tags |-> EmptyDict], [kind |-> "unreadable", tags |-> EmptyDict]}
        \cup {[kind |-> "read", tags |-> d] : d \in LayerDicts("source", MaxSourceTags)}

\* result.update(other)
RECURSIVE DictUpdate(_, _)
DictUpdate(d, other) ==
    IF Len(other) = 0 THEN d
    ELSE DictUpdate(DictSet(d, Head(other).k, Head(other).v), Tail(other))

\* Start with source file metadata if available.
SourceLayer(source) ==
    IF source.kind = "read" /\ source.tags # EmptyDict
    THEN DictUpdate(EmptyDict, source.tags)
    ELSE EmptyDict

\* A plausible slip: the album title is stored under `title`.
AlbumFieldNoMapping(res, key, value) == DictSet(res, key, value)

\* One iteration of the album loop: title -> album.
AlbumField(res, key, value) ==
    IF key = "title" THEN DictSet(res, "album", value) ELSE DictSet(res, key, value)

RECURSIVE ApplyAlbum(_, _)
ApplyAlbum(res, items) ==
    IF Len(items) = 0 THEN res
    ELSE ApplyAlbum(AlbumField(res, Head(items).k, Head(items).v), Tail(items))

\* A plausible slip: the album artist is not preserved.
FileFieldNoAlbumArtist(res, key, value, album) == DictSet(res, key, value)

\* A plausible slip: a field already set by a lower layer is kept.
FileFieldKeepsLower(res, key, value, album) ==
    IF DictHas(res, key) THEN res ELSE DictSet(res, key, value)

\* One iteration of the file loop: an artist override preserves the album artist.
FileField(res, key, value, album) ==
    IF key = "artist" /\ DictHas(album, "artist")
    THEN DictSet(DictSet(res, "albumartist", DictGet(album, "artist")), "artist", value)
    ELSE DictSet(res, key, value)

RECURSIVE ApplyFile(_, _, _)
ApplyFile(res, items, album) ==
    IF Len(items) = 0 THEN res
    ELSE ApplyFile(FileField(res, Head(items).k, Head(items).v, album), Tail(items), album)

merge_metadata(album, file, source) ==
    ApplyFile(ApplyAlbum(SourceLayer(source), album), file, album)

MergeIdle ==
    /\ album_metadata = EmptyDict
    /\ file_metadata = EmptyDict
    /\ source_file = [kind |-> "no_path", tags |-> EmptyDict]
    /\ merged = EmptyDict
    /\ merge_pc = "idle"

MergeInit ==
    /\ album_metadata \in LayerDicts("album", MaxFields)
    /\ file_metadata \in LayerDicts("file", MaxFields)
    /\ source_file \in SourceFiles
    /\ merged = EmptyDict
    /\ merge_pc = "call"

\* merge_metadata(album_metadata, file_metadata, filename, source_file_path)
MergeMetadata ==
    /\ merge_pc = "call"
    /\ merged' = merge_metadata(album_metadata, file_metadata, source_file)
    /\ merge_pc' = "done"
    /\ UNCHANGED <<album_metadata, file_metadata, source_file>>
    /\ UNCHANGED <<parseVars, exportVars, coverVars, templateVars, encodeVars, runVars,
                 extractVars, argsVars>>

---------------------------------------------------------------------------
(* What the claims about merge_metadata speak of. *)

\* The source file's tags as far as merge_metadata gets to see them.
ReadableTags == IF source_file.kind = "read" THEN source_file.tags ELSE EmptyDict

\* The three-layer precedence for one field name, as far as a layer defines
\* the field: the file value if the file scope defines it, else the album
\* value if the album scope defines it, else the source tag if present.
HighestLayerWins(field) ==
    IF DictHas(file_metadata, field)
    THEN DictHas(merged, field) /\ DictGet(merged, field) = DictGet(file_metadata, field)
    ELSE IF DictHas(album_metadata, field)
    THEN DictHas(merged, field) /\ DictGet(merged, field) = DictGet(album_metadata, field)
    ELSE IF DictHas(ReadableTags, field)
    THEN DictHas(merged, field) /\ DictGet(merged, field) = DictGet(ReadableTags, field)
    ELSE TRUE

\* The same, and a field no layer defines is not in the result.
FollowsPrecedence(field) ==
    /\ HighestLayerWins(field)
    /\ DictHas(merged, field) =>
          \/ DictHas(file_metadata, field)
          \/ DictHas(album_metadata, field)
          \/ DictHas(ReadableTags, field)

(* C2, as claimed: every field name other than `title`, `artist` and       *)
(* `albumartist` follows the precedence source tags < album < file.        *)
C2_Original ==
    merge_pc = "done" =>
        \A field \in MergeKeys \ {"title", "artist", "albumartist"} :
            HighestLayerWins(field)

(* C2, amended: every field name other than `title`, `album`, `artist` and *)
(* `albumartist` follows the precedence source tags < album < file, the    *)
(* higher layer replacing the whole value (the album scope's `title` is    *)
(* written to the `album` field, so `album` is special-cased too).         *)
C2_PlainFieldsFollowPrecedence ==
    merge_pc = "done" =>
        \A field \in MergeKeys \ {"title", "album", "artist", "albumartist"} :
            FollowsPrecedence(field)

\* A plain field defined by all three layers, merged: the file value won.
C2_Witness ==
    /\ merge_pc = "done"
    /\ \E field \in MergeKeys \ {"title", "album", "artist", "albumartist"} :
          /\ DictHas(file_metadata, field)
          /\ DictHas(album_metadata, field)
          /\ DictHas(ReadableTags, field)
          /\ DictGet(merged, field) = LayerValue("file", field)

(* C3, as claimed: with album artist A and file artist B the result has    *)
(* artist = B and albumartist = A; without an album artist, a file artist  *)
(* only replaces `artist` and leaves `albumartist` to the precedence rule. *)
C3_Original ==
    (merge_pc = "done" /\ DictHas(file_metadata, "artist")) =>
        /\ DictHas(merged, "artist")
        /\ DictGet(merged, "artist") = DictGet(file_metadata, "artist")
        /\ IF DictHas(album_metadata, "artist")
           THEN /\ DictHas(merged, "albumartist")
                /\ DictGet(merged, "albumartist") = DictGet(album_metadata, "artist")
           ELSE FollowsPrecedence("albumartist")

(* C3, amended: with album artist A and file artist B, and a file scope    *)
(* that does not itself define `albumartist`, the result has artist = B    *)
(* and albumartist = A; without an album artist, a file artist only        *)
(* replaces `artist` and adds or changes no `albumartist` entry.           *)
C3_ArtistOverrideKeepsAlbumArtist ==
    (merge_pc = "done" /\ DictHas(file_metadata, "artist")) =>
        /\ DictHas(merged, "artist")
        /\ DictGet(merged, "artist") = DictGet(file_metadata, "artist")
        /\ IF DictHas(album_metadata, "artist")
           THEN ~DictHas(file_metadata, "albumartist") =>
                   /\ DictHas(merged, "albumartist")
                   /\ DictGet(merged, "albumartist") = DictGet(album_metadata, "artist")
           ELSE FollowsPrecedence("albumartist")

\* Album artist and file artist both given, an albumartist of a lower layer
\* present too, merged: artist is the file's, albumartist the album's artist.
C3_Witness ==
    /\ merge_pc = "done"
    /\ DictHas(album_metadata, "artist")
    /\ DictHas(album_metadata, "albumartist")
    /\ DictHas(file_metadata, "artist")
    /\ ~DictHas(file_metadata, "albumartist")
    /\ DictGet(merged, "artist") = LayerValue("file", "artist")
    /\ DictGet(merged, "albumartist") = LayerValue("album", "artist")

(* C4, as claimed: with an album title T and no file title, the result has *)
(* album = T and no `title` key, whatever the source-file tag layer is.    *)
C4_Original ==
    (/\ merge_pc = "done"
     /\ DictHas(album_metadata, "title")
     /\ ~DictHas(file_metadata, "title")) =>
        /\ DictHas(merged, "album")
        /\ DictGet(merged, "album") = DictGet(album_metadata, "title")
        /\ ~DictHas(merged, "title")

(* C4, amended: with an album title T, no file title, and no `album` field *)
(* in the album or file scope, the result has album = T; it has a `title`  *)
(* key only when the source file's tags were read and hold one, and then   *)
(* with the source's value (the track title), never with T.                *)
C4_AlbumTitleBecomesAlbum ==
    (/\ merge_pc = "done"
     /\ DictHas(album_metadata, "title")
     /\ ~DictHas(file_metadata, "title")) =>
        /\ (~DictHas(album_metadata, "album") /\ ~DictHas(file_metadata, "album")) =>
              /\ DictHas(merged, "album")
              /\ DictGet(merged, "album") = DictGet(album_metadata, "title")
        /\ DictHas(merged, "title") <=> DictHas(ReadableTags, "title")
        /\ DictHas(merged, "title") =>
              DictGet(merged, "title") = DictGet(ReadableTags, "title")

\* An album title over a source file that has an album tag, merged: the album
\* field is the album title and there is no title key.
C4_Witness ==
    /\ merge_pc = "done"
    /\ DictHas(album_metadata, "title")
    /\ file_metadata = EmptyDict
    /\ DictHas(ReadableTags, "album")
    /\ DictGet(merged, "album") = LayerValue("album", "title")
    /\ ~DictHas(merged, "title")

---------------------------------------------------------------------------
(* validate_metadata_files, and the part of process_directory around it:   *)
(* the validation of the parsed metadata.txt against the audio files       *)
(* found, then for each track the lookup of its per-file overrides and the *)
(* merge.                                                                  *)

\* Filenames of the model.  Strings are kept ASCII: "@" stands for the
\* precomposed U+00FC and "~" for the combining diaeresis U+0308, so that
\* "@.flac" is the NFC spelling and "u~.flac" the NFD spelling of one name.
DiskNames == {"@.flac", "u~.flac", "a.flac", "b.mp3"}
TypedNames == DiskNames \cup {"missing.flac"}

\* unicodedata.normalize("NFD", s): every precomposed character is decomposed.
RECURSIVE NFD(_)
NFD(s) ==
    IF Len(s) = 0 THEN ""
    ELSE (IF CharAt(s, 1) = "@" THEN "u~" ELSE CharAt(s, 1)) \o NFD(Substr(s, 2, Len(s)))

\* The per-file fields a metadata.txt gives a name: they tell the name.
FieldsOf(name) == <<[k |-> "title", v |-> "title of " \o name]>>

\* metadata["files"] with at most n sections, in every order.
RECURSIVE FileSections(_)
FileSections(n) ==
    IF n = 0 THEN {EmptyDict}
    ELSE LET shorter == FileSections(n - 1)
         IN  shorter \cup
             UNION {{Append(d, [k |-> name, v |-> FieldsOf(name)]) :
                        name \in TypedNames \ DictKeys(d)} :
                    d \in {e \in shorter : Len(e) = n - 1}}

\* Directory listings of 1 to n audio files (process_directory returns early
\* on an empty listing), in every order.
RECURSIVE Listings(_)
Listings(n) ==
    IF n = 0 THEN {<<>>}
    ELSE LET shorter == Listings(n - 1)
         IN  shorter \cup
             UNION {{Append(fs, name) :
                        name \in DiskNames \ {fs[i] : i \in 1..Len(fs)}} :
                    fs \in {e \in shorter : Len(e) = n - 1}}

\* filename in available_files
InList(name, available) ==
    \E i \in 1..Len(available) : available[i] = name

\* validate_metadata_files: None, or Some(filename) for the ValueError raised on
\* the first key of metadata["files"] that is not in available_files.
validate_metadata_files(md, available) ==
    LET missing == {i \in 1..Len(md.files) : ~InList(md.files[i].k, available)}
    IN  IF missing = {} THEN None
        ELSE Some(md.files[CHOOSE i \in missing : \A j \in missing : i <= j].k)

\* metadata["files"].get(str(audio_file), {})
LookupFileMetadata(files, audio_file) ==
    IF DictHas(files, audio_file) THEN DictGet(files, audio_file) ELSE EmptyDict

ExportIdle ==
    /\ metadata = ParseStart.result
    /\ all_audio_files = <<>>
    /\ audio_idx = 0
    /\ raised = None
    /\ export_pc = "idle"

\* On entry to the validation: a directory with audio files, and its
\* metadata.txt parsed (or the empty default when there is none).
ExportInit ==
    /\ metadata \in [album : LayerDicts("album", 1), files : FileSections(MaxSections)]
    /\ all_audio_files \in Listings(MaxAudioFiles) \ {<<>>}
    /\ audio_idx = 0
    /\ raised = None
    /\ export_pc = "validate"

\* validate_metadata_files(metadata, available_filenames); a ValueError leaves
\* process_directory.
ValidateMetadataFiles ==
    /\ export_pc = "validate"
    /\ raised' = validate_metadata_files(metadata, all_audio_files)
    /\ export_pc' = IF raised'.isNone THEN "tracks" ELSE "raised"
    /\ UNCHANGED <<metadata, all_audio_files, audio_idx>>
    /\ UNCHANGED <<parseVars, mergeVars, coverVars, templateVars, encodeVars, runVars,
                 extractVars, argsVars>>

\* One track of the loop: look its overrides up and merge the three layers.
MergeTrackMetadata ==
    /\ export_pc = "tracks"
    /\ audio_idx < Len(all_audio_files)
    /\ \E source \in SourceFiles :
          /\ source_file' = source
          /\ album_metadata' = metadata.album
          /\ file_metadata' = LookupFileMetadata(metadata.files, all_audio_files[audio_idx + 1])
          /\ merged' = merge_metadata(album_metadata', file_metadata', source)
    /\ merge_pc' = "done"
    /\ audio_idx' = audio_idx + 1
    /\ UNCHANGED <<metadata, all_audio_files, raised, export_pc>>
    /\ UNCHANGED <<parseVars, coverVars, templateVars, encodeVars, runVars, extractVars, argsVars>>

\* The track loop is over.
TracksDone ==
    /\ export_pc = "tracks"
    /\ audio_idx = Len(all_audio_files)
    /\ export_pc' = "done"
    /\ UNCHANGED <<metadata, all_audio_files, audio_idx, raised>>
    /\ UNCHANGED <<parseVars, mergeVars, coverVars, templateVars, encodeVars, runVars,
                 extractVars, argsVars>>

ExportNext == ValidateMetadataFiles \/ MergeTrackMetadata \/ TracksDone

---------------------------------------------------------------------------
(* What the claims about filename matching speak of. *)

\* Unicode canonical equivalence: equal after NFD normalization of both sides.
CanonicallyEquivalent(a, b) == NFD(a) = NFD(b)

HasEquivalentFile(name) ==
    \E i \in 1..Len(all_audio_files) : CanonicallyEquivalent(name, all_audio_files[i])

(* C5: validate_metadata_files succeeds if and only if every filename key  *)
(* of metadata["files"] is canonically equivalent to some available file   *)
(* (so an NFD-typed key validates against the NFC name on disk and vice    *)
(* versa), and otherwise the error names an unmatched filename.            *)
C5_ValidatesByCanonicalEquivalence ==
    /\ export_pc \in {"tracks", "done"} =>
          \A name \in DictKeys(metadata.files) : HasEquivalentFile(name)
    /\ export_pc = "raised" =>
          /\ ~raised.isNone
          /\ raised.str \in DictKeys(metadata.files)
          /\ ~HasEquivalentFile(raised.str)

(* C6: the per-file overrides of a track are found by Unicode-normalized   *)
(* comparison of the disk-reported filename with the keys of               *)
(* metadata["files"]: when some key is canonically equivalent to the       *)
(* track's filename, the fields of such a key are the file-scope layer of  *)
(* the track's merge.                                                      *)
C6_LookupByCanonicalEquivalence ==
    (export_pc = "tracks" /\ audio_idx >= 1) =>
        LET track == all_audio_files[audio_idx]
            keys  == {name \in DictKeys(metadata.files) : CanonicallyEquivalent(name, track)}
        IN  keys # {} =>
                \E name \in keys : DictEq(file_metadata, DictGet(metadata.files, name))

---------------------------------------------------------------------------
(* find_cover_art *)

UpperCase == "ABCDEFGHIJKLMNOPQRSTUVWXYZ"
LowerCase == "abcdefghijklmnopqrstuvwxyz"

\* The lower-case letter of each upper-case one.
LowerOf == [c \in {CharAt(UpperCase, i) : i \in 1..26} |-> CharAt(LowerCase, Find(UpperCase, c))]

\* str.lower()
RECURSIVE Lower(_)
Lower(s) ==
    IF Len(s) = 0 THEN ""
    ELSE LET c == CharAt(s, 1)
         IN  (IF c \in DOMAIN LowerOf THEN LowerOf[c] ELSE c) \o Lower(Substr(s, 2, Len(s)))

\* Prefixes in priority order, and the supported extensions.
cover_prefixes == <<"cover", "folder", "front", "album">>
cover_extensions == <<".jpg", ".jpeg", ".png", ".gif", ".webp">>

\* The innermost test, for some extension.
IsCoverFile(filename, prefix) ==
    LET lowered == Lower(filename)
    IN  /\ StartsWith(lowered, prefix)
        /\ \E e \in 1..Len(cover_extensions) : EndsWith(lowered, cover_extensions[e])

\* The first file of the listing, in listing order, that passes the test.
FirstCoverFile(files, prefix) ==
    LET hits == {i \in 1..Len(files) : IsCoverFile(files[i], prefix)}
    IN  IF hits = {} THEN None
        ELSE Some(files[CHOOSE i \in hits : \A j \in hits : i <= j])

\* A plausible slip: the loops are nested the other way round, so the first
\* file that matches any prefix is returned.
find_cover_art_FileOrderFirst(files) ==
    LET hits == {i \in 1..Len(files) :
                    \E p \in 1..Len(cover_prefixes) : IsCoverFile(files[i], cover_prefixes[p])}
    IN  IF hits = {} THEN None
        ELSE Some(files[CHOOSE i \in hits : \A j \in hits : i <= j])

\* for prefix in cover_prefixes: for filename in available_files: ...
find_cover_art(files) ==
    LET found == {p \in 1..Len(cover_prefixes) :
                     ~FirstCoverFile(files, cover_prefixes[p]).isNone}
    IN  IF found = {} THEN None
        ELSE FirstCoverFile(files, cover_prefixes[CHOOSE p \in found : \A q \in found : p <= q])

\* The filenames of the listings: images of every prefix, in mixed case, a
\* second extension, and files that have only the prefix or only the extension.
ListingNames ==
    {"cover.jpg", "Cover.PNG", "folder.png", "folder.gif", "FRONT.jpeg",
     "album.webp", "cover.txt", "back.jpg"}

RECURSIVE CoverListings(_)
CoverListings(n) ==
    IF n = 0 THEN {<<>>}
    ELSE LET shorter == CoverListings(n - 1)
         IN  shorter \cup
             UNION {{Append(fs, name) :
                        name \in ListingNames \ {fs[i] : i \in 1..Len(fs)}} :
                    fs \in {e \in shorter : Len(e) = n - 1}}

CoverIdle ==
    /\ available_files = <<>>
    /\ cover_art = None
    /\ cover_pc = "idle"

CoverInit ==
    /\ available_files \in CoverListings(MaxListing)
    /\ cover_art = None
    /\ cover_pc = "call"

\* cover_art = find_cover_art(all_files)
FindCoverArt ==
    /\ cover_pc = "call"
    /\ cover_art' = find_cover_art(available_files)
    /\ cover_pc' = "done"
    /\ UNCHANGED available_files
    /\ UNCHANGED <<parseVars, mergeVars, exportVars, templateVars, encodeVars, runVars,
                 extractVars, argsVars>>

---------------------------------------------------------------------------
(* C10: find_cover_art selects by prefix priority first and file order     *)
(* second: it returns the first file, in list order, that matches the      *)
(* highest-priority prefix having any match (lowercased name starts with   *)
(* the prefix and ends with .jpg, .jpeg, .png, .gif or .webp), so a        *)
(* `cover` image beats every `folder` image even if listed later; it       *)
(* returns None exactly when no file matches any prefix/extension pair.    *)

\* The rank of a file: the priority of the best prefix it matches, 0 if none.
CoverRank(filename) ==
    LET name == Lower(filename)
        ps   == {p \in 1..4 :
                    /\ StartsWith(name, <<"cover", "folder", "front", "album">>[p])
                    /\ \E ext \in {".jpg", ".jpeg", ".png", ".gif", ".webp"} :
                          EndsWith(name, ext)}
    IN  IF ps = {} THEN 0 ELSE CHOOSE p \in ps : \A q \in ps : p <= q

C10_PrefixPriorityThenFileOrder ==
    cover_pc = "done" =>
        LET ranked == {i \in 1..Len(available_files) : CoverRank(available_files[i]) # 0}
        IN  /\ cover_art.isNone <=> ranked = {}
            /\ ~cover_art.isNone =>
                  \E i \in ranked :
                      /\ available_files[i] = cover_art.str
                      /\ \A j \in ranked :
                            \/ CoverRank(available_files[i]) < CoverRank(available_files[j])
                            \/ /\ CoverRank(available_files[i]) = CoverRank(available_files[j])
                               /\ i <= j

\* A listing with a `folder` image before a `cover` image, searched: the
\* `cover` image was returned.
C10_Witness ==
    /\ cover_pc = "done"
    /\ \E i, j \in 1..Len(available_files) :
          /\ i < j
          /\ CoverRank(available_files[i]) = 2
          /\ CoverRank(available_files[j]) = 1
          /\ cover_art = Some(available_files[j])

---------------------------------------------------------------------------
(* generate_metadata_template *)

\* f"{key}: {value}" for every item of a dict, in order.
RECURSIVE FieldLines(_)
FieldLines(d) ==
    IF Len(d) = 0 THEN <<>>
    ELSE <<Head(d).k \o ": " \o Head(d).v>> \o FieldLines(Tail(d))

\* file_metadata.get(filename, {})
FileMetaOf(file_md, filename) ==
    IF DictHas(file_md, filename) THEN DictGet(file_md, filename) ELSE EmptyDict

\* A plausible slip: the header is written without its closing colon.
FileSectionLinesNoClosingColon(filename, file_md, blank) ==
    <<"file: " \o filename>>
        \o (IF blank THEN <<"title:", "track number:">>
            ELSE FieldLines(FileMetaOf(file_md, filename)))
        \o <<"">>

\* The section of one audio file, with the blank line that ends it.
FileSectionLines(filename, file_md, blank) ==
    <<"file: " \o filename \o ":">>
        \o (IF blank THEN <<"title:", "track number:">>
            ELSE FieldLines(FileMetaOf(file_md, filename)))
        \o <<"">>

RECURSIVE AllFileSectionLines(_, _, _)
AllFileSectionLines(files, file_md, blank) ==
    IF Len(files) = 0 THEN <<>>
    ELSE FileSectionLines(Head(files), file_md, blank)
            \o AllFileSectionLines(Tail(files), file_md, blank)

\* The list `lines` the generator builds.
TemplateLines(files, album, file_md, blank) ==
    <<"# This file contains metadata overrides for the export command",
      "# Fields: title, artist, date, track number, cover",
      "# Album-wide fields apply to all tracks unless overridden per-file",
      "",
      "# Album metadata">>
        \o (IF blank THEN <<"title:", "artist:", "date:", "cover:">> ELSE FieldLines(album))
        \o <<"", "# Per-file metadata">>
        \o AllFileSectionLines(files, file_md, blank)

generate_metadata_template(files, album, file_md, blank) ==
    Join(TemplateLines(files, album, file_md, blank), "\n")

\* Field names, values and file names of the model: plain ones, and ones the
\* text format has no way to write down (a key that reads as a header or that
\* holds the separator, a value or a name with outer
\* whitespace, a value with a line break, an empty name).
TemplateKeys == {"title", "file", "a:b"}
TemplateValues == {"x: y", "", " x", "l\nm"}
TemplateNames == {"t.flac", "u.flac", " v.flac", ""}

RECURSIVE TemplateDicts(_)
TemplateDicts(n) ==
    IF n = 0 THEN {EmptyDict}
    ELSE LET shorter == TemplateDicts(n - 1)
         IN  shorter \cup
             UNION {{Append(d, [k |-> key, v |-> value]) :
                        key \in TemplateKeys \ DictKeys(d), value \in TemplateValues} :
                    d \in {e \in shorter : Len(e) = n - 1}}

\* What file_metadata may hold for one audio file, when it holds something.
TrackDicts == {<<[k |-> "title", v |-> "x: y"]>>, <<[k |-> "track number", v |-> " x"]>>}

RECURSIVE TemplateFileLists(_)
TemplateFileLists(n) ==
    IF n = 0 THEN {<<>>}
    ELSE LET shorter == TemplateFileLists(n - 1)
         IN  shorter \cup
             UNION {{Append(fs, name) :
                        name \in TemplateNames \ {fs[i] : i \in 1..Len(fs)}} :
                    fs \in {e \in shorter : Len(e) = n - 1}}

\* The file_metadata dicts over some of the given files.
RECURSIVE FileMetadataOver(_)
FileMetadataOver(files) ==
    IF Len(files) = 0 THEN {EmptyDict}
    ELSE LET rest == FileMetadataOver(Tail(files))
         IN  rest \cup {<<[k |-> Head(files), v |-> d]>> \o fm : d \in TrackDicts, fm \in rest}

TemplateIdle ==
    /\ audio_files = <<>>
    /\ tmpl_album_metadata = EmptyDict
    /\ tmpl_file_metadata = EmptyDict
    /\ template_only = FALSE
    /\ template_pc = "idle"

\* The generator's arguments as extract_metadata_from_single_directory passes
\* them: with template_only both dicts are empty.
TemplateInit ==
    /\ audio_files \in TemplateFileLists(MaxTemplateFiles)
    /\ template_only \in BOOLEAN
    /\ tmpl_album_metadata \in
          IF template_only THEN {EmptyDict} ELSE TemplateDicts(MaxTemplateFields)
    /\ tmpl_file_metadata \in
          IF template_only THEN {EmptyDict} ELSE FileMetadataOver(audio_files)
    /\ template_pc = "call"

\* template_content = generate_metadata_template(...)
GenerateTemplate ==
    /\ template_pc = "call"
    /\ content' = generate_metadata_template(audio_files, tmpl_album_metadata,
                                             tmpl_file_metadata, template_only)
    /\ template_pc' = "rendered"
    /\ UNCHANGED <<lines, line_idx, result, current_file, in_malformed_section, parse_pc>>
    /\ UNCHANGED <<audio_files, tmpl_album_metadata, tmpl_file_metadata, template_only>>
    /\ UNCHANGED <<mergeVars, exportVars, coverVars, encodeVars, runVars, extractVars, argsVars>>

\* metadata = parse_metadata_file(content), on the rendered text
ParseTemplate ==
    /\ template_pc = "rendered"
    /\ lines' = Split(content, "\n")
    /\ line_idx' = Len(lines')
    /\ LET st == ParseLines(ParseStart, lines')
       IN  /\ result' = st.result
           /\ current_file' = st.current_file
           /\ in_malformed_section' = st.in_malformed_section
    /\ parse_pc' = "done"
    /\ template_pc' = "parsed"
    /\ UNCHANGED content
    /\ UNCHANGED <<audio_files, tmpl_album_metadata, tmpl_file_metadata, template_only>>
    /\ UNCHANGED <<mergeVars, exportVars, coverVars, encodeVars, runVars, extractVars, argsVars>>

TemplateNext == GenerateTemplate \/ ParseTemplate

---------------------------------------------------------------------------
(* What the round trip claim speaks of. *)

\* The per-file fields supplied for the files that were rendered.
SuppliedFiles ==
    [name \in {audio_files[i] : i \in 1..Len(audio_files)} |->
        DictAsMap(FileMetaOf(tmpl_file_metadata, name))]

ParsedFiles ==
    [name \in DictKeys(result.files) |-> DictAsMap(DictGet(result.files, name))]

RoundTrips ==
    /\ DictAsMap(result.album) = DictAsMap(tmpl_album_metadata)
    /\ ParsedFiles = SuppliedFiles

HasLineBreak(s) == Contains(s, "\n")
IsTrimmed(s) == Strip(s) = s

\* A field the line `key: value` can carry.
Writable(d) ==
    \A i \in 1..Len(d) :
        /\ IsTrimmed(d[i].k) /\ ~HasLineBreak(d[i].k)
        /\ ~Contains(d[i].k, ":") /\ ~StartsWith(d[i].k, "#") /\ d[i].k # "file"
        /\ IsTrimmed(d[i].v) /\ ~HasLineBreak(d[i].v)

\* A file name the header `file: <name>:` can carry.
WritableName(name) == name # "" /\ IsTrimmed(name) /\ ~HasLineBreak(name)

(* C9, as claimed: for any album fields and per-file fields rendered with  *)
(* template_only=False, parsing the rendered text yields the album and     *)
(* per-file field values supplied.                                         *)
C9_Original ==
    (template_pc = "parsed" /\ ~template_only) => RoundTrips

(* C9, amended: the round trip holds for the fields the format can carry:  *)
(* keys and values with no leading or trailing whitespace and no line      *)
(* break, keys with no colon, not starting with `#` and other than `file`, *)
(* and non-empty audio file names with no leading or trailing whitespace   *)
(* and no line break.  Then parsing the text rendered with                 *)
(* template_only=False yields the album fields supplied and, for every     *)
(* audio file rendered, the per-file fields supplied (the `cover` field    *)
(* included).                                                              *)
C9_RoundTripOfWritableFields ==
    (/\ template_pc = "parsed"
     /\ ~template_only
     /\ Writable(tmpl_album_metadata)
     /\ \A i \in 1..Len(audio_files) :
           /\ WritableName(audio_files[i])
           /\ Writable(FileMetaOf(tmpl_file_metadata, audio_files[i])))
        => RoundTrips

\* A rendered and re-parsed template with an album field and two files, one
\* of them with a per-file field: everything came back.
C9_Witness ==
    /\ template_pc = "parsed"
    /\ ~template_only
    /\ Len(tmpl_album_metadata) = 1
    /\ Writable(tmpl_album_metadata)
    /\ Len(audio_files) = 2
    /\ \A i \in 1..Len(audio_files) : WritableName(audio_files[i])
    /\ \E i \in 1..Len(audio_files) :
          FileMetaOf(tmpl_file_metadata, audio_files[i]) # EmptyDict
    /\ RoundTrips

---------------------------------------------------------------------------
(* build_opusenc_command *)

\* The upper-case letter of each lower-case one.
UpperOf == [c \in {CharAt(LowerCase, i) : i \in 1..26} |-> CharAt(UpperCase, Find(LowerCase, c))]

\* str.upper()
RECURSIVE Upper(_)
Upper(s) ==
    IF Len(s) = 0 THEN ""
    ELSE LET c == CharAt(s, 1)
         IN  (IF c \in DOMAIN UpperOf THEN UpperOf[c] ELSE c) \o Upper(Substr(s, 2, Len(s)))

\* s.replace(" ", "")
RECURSIVE RemoveSpaces(_)
RemoveSpaces(s) ==
    IF Len(s) = 0 THEN ""
    ELSE (IF CharAt(s, 1) = " " THEN "" ELSE CharAt(s, 1))
            \o RemoveSpaces(Substr(s, 2, Len(s)))

\* A plausible slip: the `cover` branch is missing, so the field takes the
\* last branch like any other unknown key.
OpusKeyNoCoverBranch(key) ==
    IF key = "title" THEN Some("TITLE")
    ELSE IF key = "artist" THEN Some("ARTIST")
    ELSE IF key = "album" THEN Some("ALBUM")
    ELSE IF key = "date" THEN Some("DATE")
    ELSE IF key = "track number" THEN Some("TRACKNUMBER")
    ELSE IF key = "albumartist" THEN Some("ALBUMARTIST")
    ELSE Some(RemoveSpaces(Upper(key)))

\* The if/elif chain that picks opus_key; None where the chain says `continue`.
\* (comment_key and field_mapping, computed above the chain, are never read.)
OpusKey(key) ==
    IF key = "title" THEN Some("TITLE")
    ELSE IF key = "artist" THEN Some("ARTIST")
    ELSE IF key = "album" THEN Some("ALBUM")
    ELSE IF key = "date" THEN Some("DATE")
    ELSE IF key = "track number" THEN Some("TRACKNUMBER")
    ELSE IF key = "albumartist" THEN Some("ALBUMARTIST")
    ELSE IF key = "cover" THEN None
    ELSE Some(RemoveSpaces(Upper(key)))

\* The arguments the loop over metadata.items() appends.
RECURSIVE CommentArgs(_)
CommentArgs(md) ==
    IF Len(md) = 0 THEN <<>>
    ELSE LET opus_key == OpusKey(Head(md).k)
         IN  (IF opus_key.isNone THEN <<>>
              ELSE <<"--comment", opus_key.str \o "=" \o Head(md).v>>)
                 \o CommentArgs(Tail(md))

\* q is None or Some(bitrate); md is None (an empty dict does the same) or a dict.
build_opusenc_command(input_file, output_file, q, md) ==
    <<"opusenc">>
        \o (IF Truthy(q) THEN <<"--bitrate", q.str>> ELSE <<>>)
        \o (IF Len(md) > 0 THEN CommentArgs(md) ELSE <<>>)
        \o <<input_file, output_file>>

---------------------------------------------------------------------------
(* metadata_handler.apply_metadata_to_file *)

\* The formats mutagen.File tells apart, "generic" being every other one.
TagFormats == {"mp3", "ogg", "mp4", "opus", "generic"}

\* tag_mapping of each _apply_*_metadata: the tags to try for a field, in order.
TagMapping(format, field) ==
    IF format = "mp3" THEN
        (IF field = "title" THEN <<"TIT2">>
         ELSE IF field = "artist" THEN <<"TPE1">>
         ELSE IF field = "album" THEN <<"TALB">>
         ELSE IF field = "date" THEN <<"TDRC">>
         ELSE IF field = "track number" THEN <<"TRCK">>
         ELSE IF field = "albumartist" THEN <<"TPE2">>
         ELSE <<>>)
    ELSE IF format = "mp4" THEN
        (IF field = "title" THEN <<"(c)nam">>
         ELSE IF field = "artist" THEN <<"(c)ART">>
         ELSE IF field = "album" THEN <<"(c)alb">>
         ELSE IF field = "date" THEN <<"(c)day">>
         ELSE IF field = "track number" THEN <<"trkn">>
         ELSE IF field = "albumartist" THEN <<"aART">>
         ELSE <<>>)
    ELSE
        (IF field = "title" THEN <<"TITLE">>
         ELSE IF field = "artist" THEN <<"ARTIST">>
         ELSE IF field = "album" THEN <<"ALBUM">>
         ELSE IF field = "date" THEN <<"DATE">>
         ELSE IF field = "track number" THEN <<"TRACKNUMBER">>
         ELSE IF field = "albumartist" THEN <<"ALBUMARTIST">>
         ELSE <<>>)
        \o (IF format # "generic" THEN <<>>
            ELSE IF field = "title" THEN <<"TIT2">>
            ELSE IF field = "artist" THEN <<"TPE1">>
            ELSE IF field = "album" THEN <<"TALB">>
            ELSE IF field = "date" THEN <<"TDRC">>
            ELSE IF field = "track number" THEN <<"TRCK">>
            ELSE IF field = "albumartist" THEN <<"TPE2">>
            ELSE <<>>)

Digits == "0123456789"

IsDigits(s) == Len(s) > 0 /\ \A i \in 1..Len(s) : Contains(Digits, CharAt(s, i))

\* str(int(s)) for a string of digits
RECURSIVE StripLeadingZeros(_)
StripLeadingZeros(s) ==
    IF Len(s) > 1 /\ CharAt(s, 1) = "0" THEN StripLeadingZeros(Substr(s, 2, Len(s))) ELSE s

\* The value stored: str(value), but for the MP4 track number the pair
\* (int(value), 0), or (1, 0) where int() raises ValueError.
StoredValue(format, field, value) ==
    IF format = "mp4" /\ field = "track number"
    THEN (IF IsDigits(value) THEN StripLeadingZeros(value) ELSE "1") \o "/0"
    ELSE value

\* The assignments made for md.items().  For the generic format the
\* assignment to a tag may raise: slot is the first tag whose assignment
\* goes through, 0 if none does.
RECURSIVE TagWrites(_, _, _)
TagWrites(format, md, slot) ==
    IF Len(md) = 0 THEN <<>>
    ELSE LET field == Head(md).k
             value == Head(md).v
             tags == TagMapping(format, field)
             at == IF format = "generic" THEN slot ELSE 1
         IN  (IF Len(tags) > 0 /\ value # "" /\ at \in 1..Len(tags)
              THEN <<[field |-> field, tag |-> tags[at],
                      value |-> StoredValue(format, field, value)]>>
              ELSE <<>>)
                 \o TagWrites(format, Tail(md), slot)

apply_metadata_to_file(format, md, slot) == TagWrites(format, md, slot)

\* copy_with_metadata, after the copy: `if metadata:` the tags are applied.
TagsAfterCopy(format, md, slot) ==
    IF Len(md) > 0 THEN apply_metadata_to_file(format, md, slot) ELSE <<>>

---------------------------------------------------------------------------
(* The encoder command and the tag writes, for merged dicts. *)

EncodeKeys == {"title", "artist", "track number", "cover", "genre"}
EncodeValues == {"", "v", "07"}

RECURSIVE EncodeDicts(_)
EncodeDicts(n) ==
    IF n = 0 THEN {EmptyDict}
    ELSE LET shorter == EncodeDicts(n - 1)
         IN  shorter \cup
             UNION {{Append(d, [k |-> key, v |-> value]) :
                        key \in EncodeKeys \ DictKeys(d), value \in EncodeValues} :
                    d \in {e \in shorter : Len(e) = n - 1}}

\* Album scopes: none, a cover, a title (which merge_metadata renames) with
\* an empty cover.
EncodeAlbums ==
    {EmptyDict,
     <<[k |-> "cover", v |-> "c.jpg"]>>,
     <<[k |-> "title", v |-> "T"], [k |-> "cover", v |-> ""]>>}

Qualities == {None, Some(""), Some("128")}

NoSourceFile == [kind |-> "no_path", tags |-> EmptyDict]

EncodeIdle ==
    /\ quality = None
    /\ encode_album = EmptyDict
    /\ encode_file = EmptyDict
    /\ merged_metadata = EmptyDict
    /\ cmd = <<>>
    /\ written_tags = <<>>
    /\ encode_pc = "idle"

EncodeInit ==
    /\ quality \in Qualities
    /\ encode_album \in EncodeAlbums
    /\ encode_file \in EncodeDicts(MaxEncodeFields)
    /\ merged_metadata = merge_metadata(encode_album, encode_file, NoSourceFile)
    /\ cmd = <<>>
    /\ written_tags = <<>>
    /\ encode_pc = "call"

\* cmd = build_opusenc_command(input_path, output_path, quality=..., metadata=...)
BuildOpusencCommand ==
    /\ encode_pc = "call"
    /\ cmd' = build_opusenc_command("in.flac", "out.opus", quality, merged_metadata)
    /\ encode_pc' = "built"
    /\ UNCHANGED <<quality, encode_album, encode_file, merged_metadata, written_tags>>
    /\ UNCHANGED <<parseVars, mergeVars, exportVars, coverVars, templateVars, runVars,
                 extractVars, argsVars>>

\* copy_with_metadata(input_path, output_path, merged_metadata), the copy done
CopyWithMetadata ==
    /\ encode_pc = "call"
    /\ \E format \in TagFormats, slot \in 0..2 :
          /\ (format # "generic" => slot = 1)
          /\ written_tags' = TagsAfterCopy(format, merged_metadata, slot)
    /\ encode_pc' = "tagged"
    /\ UNCHANGED <<quality, encode_album, encode_file, merged_metadata, cmd>>
    /\ UNCHANGED <<parseVars, mergeVars, exportVars, coverVars, templateVars, runVars,
                 extractVars, argsVars>>

EncodeNext == BuildOpusencCommand \/ CopyWithMetadata

---------------------------------------------------------------------------
(* What the claims about the encoder command and the tag writer speak of. *)

\* The tag arguments of a command: its `--comment KEY=value` pairs.
TagArgs(command) == {i \in 1..Len(command) : command[i] = "--comment"}

\* The fields of a dict other than `cover`, and those of them with a value.
TagFields(md) == {i \in 1..Len(md) : md[i].k # "cover"}
NonEmptyTagFields(md) == {i \in TagFields(md) : md[i].v # ""}

\* Where the flag belongs: right after `opusenc` and the two bitrate
\* arguments, if there are any.
DiscardCommentsPosition == IF Truthy(quality) THEN 4 ELSE 2

(* C13: build_opusenc_command emits no argument for a field whose value is *)
(* the empty string: the number of tag arguments is the number of fields   *)
(* other than `cover` that have a non-empty value.                         *)
C13_EmptyValuesSkipped ==
    encode_pc = "built"
        => Cardinality(TagArgs(cmd)) = Cardinality(NonEmptyTagFields(merged_metadata))

(* C14: every command build_opusenc_command returns holds the flag         *)
(* --discard-comments, after the optional bitrate arguments and before the *)
(* tag arguments and the two paths.                                        *)
C14_DiscardCommentsFlag ==
    encode_pc = "built"
        => /\ Len(cmd) >= DiscardCommentsPosition
           /\ cmd[DiscardCommentsPosition] = "--discard-comments"

(* C15: the `cover` field never reaches the audio tags.  merge_metadata    *)
(* passes it through, but the encoder command has one tag argument for     *)
(* each other field and none for COVER, and the tag writer that follows a  *)
(* copy makes no assignment for it.                                        *)
C15_CoverNeverTagged ==
    DictHas(merged_metadata, "cover")
        => /\ encode_pc = "built"
                => /\ \A i \in 1..Len(cmd) : ~StartsWith(cmd[i], "COVER=")
                   /\ Cardinality(TagArgs(cmd)) = Cardinality(TagFields(merged_metadata))
           /\ encode_pc = "tagged"
                => \A i \in 1..Len(written_tags) :
                      /\ written_tags[i].field # "cover"
                      /\ Upper(written_tags[i].tag) # "COVER"

\* A command built for a dict whose cover came from the album scope and
\* which has a tag argument for another field.
C15_Witness ==
    /\ encode_pc = "built"
    /\ DictHas(encode_album, "cover")
    /\ DictHas(merged_metadata, "cover")
    /\ DictGet(merged_metadata, "cover") = "c.jpg"
    /\ Cardinality(TagArgs(cmd)) >= 1

---------------------------------------------------------------------------
(* Paths: os.path and pathlib on relative paths with "/" *)

\* Index of the last occurrence of the character c in s, 0 if there is none.
RFind(s, c) ==
    LET hits == {i \in 1..Len(s) : CharAt(s, i) = c}
    IN  IF hits = {} THEN 0 ELSE CHOOSE i \in hits : \A j \in hits : i >= j

\* os.path.dirname
Dirname(path) ==
    LET i == RFind(path, "/") IN IF i = 0 THEN "" ELSE Substr(path, 1, i - 1)

\* os.path.basename, Path.name
Basename(path) == Substr(path, RFind(path, "/") + 1, Len(path))

\* os.path.join(a, b) for a relative b
PathJoin(a, b) == IF a = "" THEN b ELSE a \o "/" \o b

\* Path.suffix: from the last dot of the name, unless that dot is its first
\* or its last character.
Suffix(path) ==
    LET name == Basename(path)
        i == RFind(name, ".")
    IN  IF i >= 2 /\ i <= Len(name) - 1 THEN Substr(name, i, Len(name)) ELSE ""

\* Path.with_suffix(suffix)
WithSuffix(path, suffix) == Substr(path, 1, Len(path) - Len(Suffix(path))) \o suffix

\* os.path.splitext(path)[1]: from the last dot of the name, unless only dots
\* come before it.
SplitExt(path) ==
    LET name == Basename(path)
        i == RFind(name, ".")
    IN  IF i = 0 \/ \A j \in 1..(i - 1) : CharAt(name, j) = "." THEN ""
        ELSE Substr(name, i, Len(name))

\* file_discovery.is_lossless_format
is_lossless_format(path) == Lower(Suffix(path)) \in {".flac", ".wav"}

\* audio_processor.get_output_filename
get_output_filename(input_filename, file_type) ==
    IF file_type = "lossless" THEN WithSuffix(input_filename, ".opus") ELSE input_filename

\* get_opus_quality: OPUS_QUALITY of the environment, "128" when it is not set.
get_opus_quality(environ_value) ==
    IF environ_value.isNone THEN "128" ELSE environ_value.str

---------------------------------------------------------------------------
(* The source directories an export is run on *)

\* What find_audio_files_with_types returns: the lossless and the lossy files
\* of the whole tree, as paths relative to the source directory, each list in
\* the order the disk yields them.  "s" is a subdirectory.
AudioLayouts ==
    {[lossless |-> <<>>, lossy |-> <<>>],
     [lossless |-> <<"a.flac">>, lossy |-> <<>>],
     [lossless |-> <<>>, lossy |-> <<"b.mp3">>],
     [lossless |-> <<"a.flac">>, lossy |-> <<"b.mp3">>],
     [lossless |-> <<"a.flac", "a.wav">>, lossy |-> <<>>]}

NestedLayouts ==
    {[lossless |-> <<"s/a.flac">>, lossy |-> <<>>],
     [lossless |-> <<"a.flac", "s/a.flac">>, lossy |-> <<>>],
     [lossless |-> <<"s/a.flac", "a.flac">>, lossy |-> <<>>]}

\* metadata.txt texts: album and per-file fields, a cover that is not one of
\* the heuristic's names, a cover that is, and a section for a file that no
\* directory holds.
TextFields == "title: T\nfile: a.flac:\ntitle: A"
TextCover == "cover: c.jpg"
TextCoverPng == "cover: cover.png"
TextMissingFile == "file: zz.flac:\ntitle: Z"
TextSub == "title: S"

\* A source directory: whether it exists, its audio files, the text of its
\* metadata.txt and of the one in "s" (None where there is none), and its
\* other files.
Tree(layout, text, sub_text, others) ==
    [exists |-> TRUE, lossless |-> layout.lossless, lossy |-> layout.lossy,
     text |-> text, sub_text |-> sub_text, others |-> others]

NoTree ==
    [exists |-> FALSE, lossless |-> <<>>, lossy |-> <<>>,
     text |-> None, sub_text |-> None, others |-> <<>>]

\* Directories that differ in their cover files.
CoverTrees ==
    {Tree([lossless |-> <<"a.flac">>, lossy |-> <<>>], text, None, others) :
        text \in {None, Some(TextCover), Some(TextCoverPng)},
        others \in {<<>>, <<"c.jpg">>, <<"cover.png">>, <<"c.jpg", "cover.png">>}}

\* Directories with a subdirectory of audio files.
NestedTrees ==
    {Tree(layout, text, sub_text, others) :
        layout \in NestedLayouts,
        text \in {None, Some(TextFields)},
        sub_text \in {None, Some(TextSub)},
        others \in {<<>>, <<"s/folder.jpg">>, <<"cover.png", "s/folder.jpg">>}}

\* Directories that differ in their tracks and in what metadata.txt names.
TrackTrees ==
    {Tree(layout, text, None, <<>>) :
        layout \in AudioLayouts,
        text \in {None, Some(TextFields), Some(TextMissingFile)}}

SourceTrees == CoverTrees \cup NestedTrees \cup TrackTrees \cup {NoTree}

\* The directories a run takes after its first one.
LaterTrees ==
    {Tree([lossless |-> <<"a.flac">>, lossy |-> <<>>], text, None, <<>>) :
        text \in {None, Some(TextMissingFile)}}
        \cup {NoTree}

\* What the destination directory holds before the run: nothing, an earlier
\* output, an earlier cover.
Destinations ==
    {EmptyDict,
     <<[k |-> "a.opus", v |-> "old"]>>,
     <<[k |-> "cover.jpg", v |-> "old"]>>,
     <<[k |-> "cover.png", v |-> "old"]>>,
     <<[k |-> "a.opus", v |-> "old"], [k |-> "cover.jpg", v |-> "old"]>>}

\* The numbers of source directories on the command line.
SourceDirectoryCounts == {1, 2}

\* The command-line name of the n-th source directory.
SourceDirName(n) == <<"d1", "d2", "d3">>[n]

\* Every path of the tree that os.path.exists finds.
TreePaths(tree) ==
    LET files == {tree.lossless[i] : i \in 1..Len(tree.lossless)}
                    \cup {tree.lossy[i] : i \in 1..Len(tree.lossy)}
                    \cup {tree.others[i] : i \in 1..Len(tree.others)}
                    \cup (IF tree.text.isNone THEN {} ELSE {"metadata.txt"})
                    \cup (IF tree.sub_text.isNone THEN {} ELSE {"s/metadata.txt"})
    IN  files \cup ({Dirname(f) : f \in files} \ {""})

\* A plausible slip: the lossy files are appended twice.
AllAudioFilesLossyTwice(tree) == tree.lossless \o tree.lossy \o tree.lossy

\* all_audio_files
AllAudioFiles(tree) == tree.lossless \o tree.lossy

\* os.listdir of a directory of the tree ("" is the source directory itself).
ListDir(tree, dir) ==
    LET all == tree.others \o AllAudioFiles(tree)
                  \o (IF tree.text.isNone THEN <<>> ELSE <<"metadata.txt">>)
                  \o (IF tree.sub_text.isNone THEN <<>> ELSE <<"s/metadata.txt">>)
        here == SelectSeq(all, LAMBDA f : Dirname(f) = dir)
        subdirs == IF dir = "" /\ \E i \in 1..Len(all) : Dirname(all[i]) = "s"
                   THEN <<"s">> ELSE <<>>
    IN  [i \in 1..Len(here) |-> Basename(here[i])] \o subdirs

---------------------------------------------------------------------------
(* export and process_directory *)

\* The source-file layers the runs draw from: tags that cannot be read, and
\* a title tag.
RunSourceFiles ==
    {[kind |-> "unreadable", tags |-> EmptyDict],
     [kind |-> "read", tags |-> <<[k |-> "title", v |-> LayerValue("source", "title")]>>]}

\* One external run, as `calls` keeps it: the tool, the audio file it was run
\* for ("" for rsgain), its arguments, the tags written after a copy, and the
\* album scope and the per-file overrides that went into the merge.
Call(tool, file, args, tags, album, overrides) ==
    [tool |-> tool, file |-> file, args |-> args, tags |-> tags,
     album |-> album, overrides |-> overrides]

RunIdle ==
    /\ force = FALSE
    /\ tools_on_path = TRUE
    /\ dirs_left = 0
    /\ attempted = 0
    /\ source_tree = NoTree
    /\ dest_files = EmptyDict
    /\ processed = 0
    /\ skipped = 0
    /\ errors = <<>>
    /\ cover_art_copied = FALSE
    /\ calls = <<>>
    /\ total_processed = 0
    /\ total_skipped = 0
    /\ total_errors = <<>>
    /\ exit_code = -1
    /\ run_pc = "idle"

\* export, on entry to its loop over source_directories.
RunInit ==
    /\ force \in BOOLEAN
    /\ tools_on_path \in BOOLEAN
    /\ dirs_left \in SourceDirectoryCounts
    /\ attempted = 0
    /\ source_tree = NoTree
    /\ dest_files = EmptyDict
    /\ processed = 0
    /\ skipped = 0
    /\ errors = <<>>
    /\ cover_art_copied = FALSE
    /\ calls = <<>>
    /\ total_processed = 0
    /\ total_skipped = 0
    /\ total_errors = <<>>
    /\ exit_code = -1
    /\ run_pc = "export"

\* export's `except Exception`: the directory is left with one error.
DirectoryFailed(message) ==
    /\ total_errors' = Append(total_errors,
          "Failed to process directory " \o SourceDirName(attempted') \o ": " \o message)
    /\ run_pc' = "export"
    /\ exit_code' = exit_code

\* export takes the next source directory and calls process_directory, which
\* runs up to the start of its track loop: the tool check (sys.exit when a
\* tool is missing: SystemExit is no Exception, so export does not catch it),
\* the discovery, the parse of metadata.txt and its validation.
SetUpDirectory ==
    /\ run_pc = "export"
    /\ dirs_left > 0
    /\ dirs_left' = dirs_left - 1
    /\ attempted' = attempted + 1
    /\ processed' = 0
    /\ skipped' = 0
    /\ errors' = <<>>
    /\ cover_art_copied' = FALSE
    /\ calls' = <<>>
    /\ audio_idx' = 0
    /\ IF ~tools_on_path
       THEN /\ run_pc' = "exited"
            /\ exit_code' = 1
            /\ UNCHANGED <<source_tree, dest_files, metadata, all_audio_files, total_errors>>
       ELSE \E tree \in (IF attempted = 0 THEN SourceTrees ELSE LaterTrees),
               dest \in Destinations :
               /\ source_tree' = tree
               /\ dest_files' = dest
               /\ all_audio_files' = AllAudioFiles(tree)
               /\ metadata' = IF tree.text.isNone THEN ParseStart.result
                              ELSE parse_metadata_file(tree.text.str)
               /\ IF ~tree.exists
                  THEN DirectoryFailed("Directory does not exist: " \o SourceDirName(attempted'))
                  ELSE IF all_audio_files' = <<>>
                  THEN /\ run_pc' = "export"
                       /\ UNCHANGED <<total_errors, exit_code>>
                  ELSE IF ~validate_metadata_files(metadata', all_audio_files').isNone
                  THEN DirectoryFailed(
                          "File '" \o validate_metadata_files(metadata', all_audio_files').str
                             \o "' referenced in metadata.txt does not exist")
                  ELSE /\ run_pc' = "tracks"
                       /\ UNCHANGED <<total_errors, exit_code>>
    /\ UNCHANGED <<force, tools_on_path, total_processed, total_skipped>>
    /\ UNCHANGED <<raised, export_pc>>
    /\ UNCHANGED <<parseVars, mergeVars, coverVars, templateVars, encodeVars, extractVars, argsVars>>

\* A plausible slip: the test of the flag is inverted.
SkipExistingWhenForced(dest, output_path, overwrite) ==
    DictHas(dest, output_path) /\ overwrite

\* `if os.path.exists(output_path) and not force:`
SkipExisting(dest, output_path, overwrite) ==
    DictHas(dest, output_path) /\ ~overwrite

\* The format mutagen.File finds in a copied file, by its extension.
FormatOf(path) ==
    LET ext == Lower(Suffix(path))
    IN  IF ext = ".mp3" THEN "mp3"
        ELSE IF ext = ".ogg" THEN "ogg"
        ELSE IF ext \in {".m4a", ".aac"} THEN "mp4"
        ELSE IF ext = ".opus" THEN "opus"
        ELSE "generic"

\* One pass of the track loop.  The encoder may fail; a copy may fail, and
\* so may the tag write that follows a copy.
ProcessTrack ==
    /\ run_pc = "tracks"
    /\ audio_idx < Len(all_audio_files)
    /\ audio_idx' = audio_idx + 1
    /\ LET audio_file == all_audio_files[audio_idx + 1]
           file_type == IF is_lossless_format(audio_file) THEN "lossless" ELSE "lossy"
           output_path == get_output_filename(audio_file, file_type)
           overrides == LookupFileMetadata(metadata.files, audio_file)
       IN  IF SkipExisting(dest_files, output_path, force)
           THEN /\ skipped' = skipped + 1
                /\ UNCHANGED <<processed, errors, calls, dest_files>>
           ELSE \E source \in RunSourceFiles, outcome \in {"ok", "failed", "tags_failed"} :
                   LET md == merge_metadata(metadata.album, overrides, source)
                       args == IF file_type = "lossless"
                               THEN build_opusenc_command(audio_file, output_path,
                                        Some(get_opus_quality(None)), md)
                               ELSE <<>>
                       tags == IF file_type = "lossy" /\ outcome = "ok"
                               THEN TagsAfterCopy(FormatOf(output_path), md, 1)
                               ELSE <<>>
                       tool == IF file_type = "lossless" THEN "opusenc" ELSE "copy"
                   IN  /\ (outcome = "tags_failed" => file_type = "lossy" /\ Len(md) > 0)
                       /\ calls' = Append(calls,
                             Call(tool, audio_file, args, tags, metadata.album, overrides))
                       /\ dest_files' =
                             IF outcome = "ok" \/ outcome = "tags_failed"
                             THEN DictSet(dest_files, output_path, tool \o ":" \o audio_file)
                             ELSE dest_files
                       /\ processed' = IF outcome = "ok" THEN processed + 1 ELSE processed
                       /\ errors' =
                             IF outcome = "ok" THEN errors
                             ELSE Append(errors,
                                     "Error processing " \o audio_file \o ": " \o tool
                                        \o " " \o outcome)
                       /\ UNCHANGED skipped
    /\ UNCHANGED <<force, tools_on_path, dirs_left, attempted, source_tree,
                   cover_art_copied, total_processed, total_skipped, total_errors,
                   exit_code, run_pc>>
    /\ UNCHANGED <<metadata, all_audio_files, raised, export_pc>>
    /\ UNCHANGED <<parseVars, mergeVars, coverVars, templateVars, encodeVars, extractVars, argsVars>>

\* A plausible slip: the field is looked up under a key the parser never
\* produces, so the default is always taken.
SpecifiedCoverWrongKey(md) ==
    Strip(IF DictHas(md.album, "cover_art") THEN DictGet(md.album, "cover_art") ELSE "")

\* metadata["album"].get("cover", "").strip()
SpecifiedCover(md) ==
    Strip(IF DictHas(md.album, "cover") THEN DictGet(md.album, "cover") ELSE "")

\* A plausible slip: the cover keeps its name, as it does on the fallback path.
CoverDestKeepsName(specified_cover) == specified_cover

\* f"cover{ext}", with ext from os.path.splitext(specified_cover)
CoverDest(specified_cover) == "cover" \o SplitExt(specified_cover)

\* A plausible slip: the test is on the sum of the two counters.
ReplayGainDueAlsoWhenSkipped(n_processed, n_skipped) == n_processed + n_skipped > 0

\* `if processed > 0:`
ReplayGainDue(n_processed, n_skipped) == n_processed > 0

\* The directories of the audio files, "" for the source directory itself.
AudioDirs(files) == {Dirname(files[i]) : i \in 1..Len(files)}

\* The orders a set may be iterated in.
Orders(S) ==
    {order \in [1..Cardinality(S) -> S] : \A i, j \in 1..Cardinality(S) :
        i # j => order[i] # order[j]}

\* A plausible slip: every directory is given the listing of the source
\* directory itself.
DetectedCoversOfRoot(tree, dirs) == [dir \in dirs |-> find_cover_art(ListDir(tree, ""))]

\* find_cover_art(os.listdir(...)) of each audio directory.
DetectedCovers(tree, dirs) == [dir \in dirs |-> find_cover_art(ListDir(tree, dir))]

\* The fallback loop over audio_dirs, taken in the given order: st holds the
\* destination, the errors and the copied flag so far, `covers` what
\* find_cover_art returns for each directory, and the copy fails for the
\* directories in `failing`.
RECURSIVE CopyDetectedCovers(_, _, _, _, _)
CopyDetectedCovers(covers, order, failing, overwrite, st) ==
    IF Len(order) = 0 THEN st
    ELSE LET audio_dir == Head(order)
             found == covers[audio_dir]
             cover_dest == PathJoin(audio_dir, found.str)
             next ==
                IF ~Truthy(found) THEN st
                ELSE IF DictHas(st.dest, cover_dest) /\ ~overwrite THEN st
                ELSE IF audio_dir \in failing
                THEN [st EXCEPT !.errors =
                        Append(@, "Error copying cover art from " \o audio_dir \o ": copy failed")]
                ELSE [st EXCEPT !.dest = DictSet(@, cover_dest, "cover:" \o cover_dest),
                                !.copied = TRUE]
         IN  CopyDetectedCovers(covers, Tail(order), failing, overwrite, next)

\* The cover step, after the last track: the cover metadata.txt names, or,
\* when it names none, the one find_cover_art finds in each audio directory.
CopyCoverArt ==
    /\ run_pc = "tracks"
    /\ audio_idx = Len(all_audio_files)
    /\ run_pc' = "replaygain"
    /\ LET specified_cover == SpecifiedCover(metadata)
           cover_dest == CoverDest(specified_cover)
       IN  IF specified_cover # ""
           THEN IF specified_cover \in TreePaths(source_tree)
                THEN IF ~DictHas(dest_files, cover_dest) \/ force
                     THEN \E copy_ok \in BOOLEAN :
                             IF copy_ok
                             THEN /\ dest_files' = DictSet(dest_files, cover_dest,
                                                           "cover:" \o specified_cover)
                                  /\ cover_art_copied' = TRUE
                                  /\ UNCHANGED errors
                             ELSE /\ errors' = Append(errors,
                                        "Error copying specified cover art "
                                           \o specified_cover \o ": copy failed")
                                  /\ UNCHANGED <<dest_files, cover_art_copied>>
                     ELSE UNCHANGED <<dest_files, cover_art_copied, errors>>
                ELSE /\ errors' = Append(errors,
                           "Cover file specified in metadata.txt not found: "
                              \o specified_cover)
                     /\ UNCHANGED <<dest_files, cover_art_copied>>
           ELSE LET audio_dirs == AudioDirs(all_audio_files)
                    covers == DetectedCovers(source_tree, audio_dirs)
                IN  \E order \in Orders(audio_dirs),
                       failing \in SUBSET {dir \in audio_dirs : Truthy(covers[dir])} :
                       LET st == CopyDetectedCovers(covers, order, failing, force,
                                    [dest |-> dest_files, errors |-> errors,
                                     copied |-> cover_art_copied])
                       IN  /\ dest_files' = st.dest
                           /\ errors' = st.errors
                           /\ cover_art_copied' = st.copied
    /\ UNCHANGED <<force, tools_on_path, dirs_left, attempted, source_tree, processed,
                   skipped, calls, total_processed, total_skipped, total_errors, exit_code>>
    /\ UNCHANGED exportVars
    /\ UNCHANGED <<parseVars, mergeVars, coverVars, templateVars, encodeVars, extractVars, argsVars>>

\* The rest of process_directory and what export does with its result:
\* rsgain runs on the destination directory if a track was processed (it may
\* fail), the result is returned and export adds it to its totals.
RunReplayGain ==
    /\ run_pc = "replaygain"
    /\ run_pc' = "export"
    /\ IF ReplayGainDue(processed, skipped)
       THEN \E rsgain_ok \in BOOLEAN :
               /\ calls' = Append(calls,
                     Call("rsgain", "", <<"rsgain", "easy", SourceDirName(attempted)>>,
                          <<>>, EmptyDict, EmptyDict))
               /\ errors' = IF rsgain_ok THEN errors
                            ELSE Append(errors, "Error running ReplayGain: rsgain failed")
       ELSE UNCHANGED <<calls, errors>>
    /\ total_processed' = total_processed + processed
    /\ total_skipped' = total_skipped + skipped
    /\ total_errors' = total_errors \o errors'
    /\ UNCHANGED <<force, tools_on_path, dirs_left, attempted, source_tree, dest_files,
                   processed, skipped, cover_art_copied, exit_code>>
    /\ UNCHANGED exportVars
    /\ UNCHANGED <<parseVars, mergeVars, coverVars, templateVars, encodeVars, extractVars, argsVars>>

\* The loop is over: the summary, and sys.exit(1) if there were errors.
Summarise ==
    /\ run_pc = "export"
    /\ dirs_left = 0
    /\ run_pc' = "finished"
    /\ exit_code' = IF Len(total_errors) > 0 THEN 1 ELSE 0
    /\ UNCHANGED <<force, tools_on_path, dirs_left, attempted, source_tree, dest_files,
                   processed, skipped, errors, cover_art_copied, calls, total_processed,
                   total_skipped, total_errors>>
    /\ UNCHANGED exportVars
    /\ UNCHANGED <<parseVars, mergeVars, coverVars, templateVars, encodeVars, extractVars, argsVars>>

RunNext ==
    SetUpDirectory \/ ProcessTrack \/ CopyCoverArt \/ RunReplayGain \/ Summarise

---------------------------------------------------------------------------
(* extract_metadata_from_directory and the functions it calls *)

\* Characters in the order of their code points, as far as names use them.
CodePoints == " -.0123456789ABCDEFGHIJKLMNOPQRSTUVWXYZ_abcdefghijklmnopqrstuvwxyz"

\* Python's `<` on two strings.
RECURSIVE StrLess(_, _)
StrLess(a, b) ==
    IF Len(b) = 0 THEN FALSE
    ELSE IF Len(a) = 0 THEN TRUE
    ELSE IF CharAt(a, 1) = CharAt(b, 1) THEN StrLess(Substr(a, 2, Len(a)), Substr(b, 2, Len(b)))
    ELSE Find(CodePoints, CharAt(a, 1)) < Find(CodePoints, CharAt(b, 1))

\* sorted() of a set of one-component paths.
RECURSIVE Sorted(_)
Sorted(names) ==
    IF names = {} THEN <<>>
    ELSE LET least == CHOOSE n \in names : \A m \in names \ {n} : StrLess(n, m)
         IN  <<least>> \o Sorted(names \ {least})

\* audio_extensions of find_album_directories and of
\* discover_and_sort_audio_files_in_directory_only
audio_extensions == {".flac", ".wav", ".mp3", ".ogg", ".aac", ".m4a", ".opus"}

\* A directory entry as iterdir yields it.
File(name) == [name |-> name, is_file |-> TRUE]
Dir(name) == [name |-> name, is_file |-> FALSE]

\* `file_path.is_file() and file_path.suffix.lower() in audio_extensions`
IsAudioEntry(entry) == entry.is_file /\ Lower(Suffix(entry.name)) \in audio_extensions

\* What directory_path.iterdir() yields, in its order.
IterDir(d, dir) == d.entries[dir]

\* A plausible slip: a directory also counts when the audio files are further
\* down.
HasDirectAudioFilesOrBelow(d, dir) ==
    \E i \in 1..Len(d.dirs) :
        /\ d.dirs[i] = dir \/ StartsWith(d.dirs[i], IF dir = "" THEN "" ELSE dir \o "/")
        /\ \E j \in 1..Len(IterDir(d, d.dirs[i])) : IsAudioEntry(IterDir(d, d.dirs[i])[j])

\* has_direct_audio_files after the loop over directory_path.iterdir()
HasDirectAudioFiles(d, dir) ==
    \E j \in 1..Len(IterDir(d, dir)) : IsAudioEntry(IterDir(d, dir)[j])

\* find_album_directories: d.dirs is [root_path] + list(root_path.rglob("*"))
\* without the paths that are not directories.
find_album_directories(d) == SelectSeq(d.dirs, LAMBDA dir : HasDirectAudioFiles(d, dir))

\* The names of the audio files iterdir yields, in its order.
AudioNames(d, dir) ==
    LET found == SelectSeq(IterDir(d, dir), IsAudioEntry)
    IN  [i \in 1..Len(found) |-> found[i].name]

\* A plausible slip: the names are returned in the order of the listing.
discover_audio_files_unsorted(d, dir) == AudioNames(d, dir)

\* discover_and_sort_audio_files_in_directory_only
discover_and_sort_audio_files_in_directory_only(d, dir) ==
    LET names == AudioNames(d, dir)
    IN  Sorted({names[i] : i \in 1..Len(names)})

\* A plausible slip: the flag is not looked at.
KeepsExistingAlways(exists, overwrite) == exists

\* `if metadata_file.exists() and not force:`
KeepsExisting(exists, overwrite) == exists /\ ~overwrite

\* What extract_metadata_from_file returns: the five fields, "" for a tag the
\* file does not have, all "" when the file cannot be read.
NoTags ==
    <<[k |-> "title", v |-> ""], [k |-> "artist", v |-> ""], [k |-> "album", v |-> ""],
      [k |-> "date", v |-> ""], [k |-> "track number", v |-> ""]>>

SomeTags ==
    <<[k |-> "title", v |-> "T"], [k |-> "artist", v |-> "R"], [k |-> "album", v |-> "L"],
      [k |-> "date", v |-> ""], [k |-> "track number", v |-> "1"]>>

ExtractedTags == {NoTags, SomeTags}

\* album_metadata: the first file's album, artist and date, and the cover that
\* find_cover_art finds among the files of the directory.
ExtractedAlbum(d, dir, first_file_meta) ==
    LET files == SelectSeq(IterDir(d, dir), LAMBDA e : e.is_file)
        cover_file == find_cover_art([i \in 1..Len(files) |-> files[i].name])
    IN  <<[k |-> "title", v |-> DictGet(first_file_meta, "album")],
          [k |-> "artist", v |-> DictGet(first_file_meta, "artist")],
          [k |-> "date", v |-> DictGet(first_file_meta, "date")],
          [k |-> "cover", v |-> IF Truthy(cover_file) THEN cover_file.str ELSE ""]>>

\* file_metadata: title and track number of every audio file.
RECURSIVE ExtractedFiles(_, _)
ExtractedFiles(names, tags) ==
    IF Len(names) = 0 THEN EmptyDict
    ELSE <<[k |-> Head(names),
            v |-> <<[k |-> "title", v |-> DictGet(tags[Head(names)], "title")],
                    [k |-> "track number",
                     v |-> DictGet(tags[Head(names)], "track number")]>>]>>
            \o ExtractedFiles(Tail(names), tags)

\* The text extract_metadata_from_single_directory writes for a directory
\* whose audio files have the given tags.
ExtractedTemplate(d, dir, names, tags, blank) ==
    IF blank THEN generate_metadata_template(names, EmptyDict, EmptyDict, TRUE)
    ELSE generate_metadata_template(names, ExtractedAlbum(d, dir, tags[names[1]]),
             ExtractedFiles(names, tags), FALSE)

\* The trees of the model.  `dirs` lists the directories as the walk meets
\* them, "" being the root; `entries` is what iterdir yields for each
\* (metadata.txt, which is neither audio nor cover, is left out).
FlatDisk ==
    [dirs |-> <<"">>,
     entries |-> [dir \in {""} |->
        <<File("b.mp3"), File("cover.jpg"), File("B.flac"), File("notes.txt")>>]]

NestedDisk ==
    [dirs |-> <<"", "s", "e">>,
     entries |-> [dir \in {"", "s", "e"} |->
        IF dir = "" THEN <<Dir("s"), File("readme.txt"), Dir("e")>>
        ELSE IF dir = "s" THEN <<File("a.flac")>>
        ELSE <<>>]]

DeepDisk ==
    [dirs |-> <<"", "s", "s/t">>,
     entries |-> [dir \in {"", "s", "s/t"} |->
        IF dir = "" THEN <<File("a.flac"), Dir("s")>>
        ELSE IF dir = "s" THEN <<Dir("t"), File("folder.png")>>
        ELSE <<File("c.ogg"), File("a.WAV")>>]]

\* Names that look like audio files and are none: a directory, and a file
\* whose name is all extension.
NoAudioDisk ==
    [dirs |-> <<"", "x.flac">>,
     entries |-> [dir \in {"", "x.flac"} |->
        IF dir = "" THEN <<Dir("x.flac"), File(".flac"), File("a.txt")>> ELSE <<>>]]

OddNamesDisk ==
    [dirs |-> <<"", "x.flac">>,
     entries |-> [dir \in {"", "x.flac"} |->
        IF dir = "" THEN <<Dir("x.flac")>> ELSE <<File("A.FLAC")>>]]

Disks == {FlatDisk, NestedDisk, DeepDisk, NoAudioDisk, OddNamesDisk}

DirsOf(d) == {d.dirs[i] : i \in 1..Len(d.dirs)}

\* The metadata.txt files a tree may hold before the run.
ExistingMetadata(d) ==
    {[dir \in DirsOf(d) |-> IF dir \in having THEN Some("old") ELSE None] :
        having \in SUBSET DirsOf(d)}

ExtractIdle ==
    /\ extract_force = FALSE
    /\ extract_template_only = FALSE
    /\ disk = FlatDisk
    /\ metadata_txt = [dir \in {""} |-> None]
    /\ album_directories = <<>>
    /\ album_idx = 0
    /\ extract_processed = 0
    /\ extract_skipped = 0
    /\ extract_errors = <<>>
    /\ extract_pc = "idle"

ExtractInit ==
    /\ extract_force \in BOOLEAN
    /\ extract_template_only \in BOOLEAN
    /\ disk \in Disks
    /\ metadata_txt \in ExistingMetadata(disk)
    /\ album_directories = <<>>
    /\ album_idx = 0
    /\ extract_processed = 0
    /\ extract_skipped = 0
    /\ extract_errors = <<>>
    /\ extract_pc = "find"

\* The start of extract_metadata_from_directory: the walk, which may fail,
\* and the ValueError when it finds no album directory.
FindAlbumDirectories ==
    /\ extract_pc = "find"
    /\ \E walk_ok \in BOOLEAN :
          IF ~walk_ok
          THEN /\ extract_errors' = <<"Failed to find album directories: walk failed">>
               /\ extract_pc' = "returned"
               /\ UNCHANGED album_directories
          ELSE /\ album_directories' = find_album_directories(disk)
               /\ extract_pc' = IF Len(album_directories') = 0 THEN "raised" ELSE "loop"
               /\ UNCHANGED extract_errors
    /\ UNCHANGED <<extract_force, extract_template_only, disk, metadata_txt, album_idx,
                   extract_processed, extract_skipped>>
    /\ UNCHANGED <<parseVars, mergeVars, exportVars, coverVars, templateVars, encodeVars,
                   runVars, argsVars>>

\* One pass of the loop over album_directories: a whole call of
\* extract_metadata_from_single_directory, and the sums of its result.
ExtractSingleDirectory ==
    /\ extract_pc = "loop"
    /\ album_idx < Len(album_directories)
    /\ album_idx' = album_idx + 1
    /\ LET directory == album_directories[album_idx + 1]
       IN  IF KeepsExisting(~metadata_txt[directory].isNone, extract_force)
           THEN /\ extract_skipped' = extract_skipped + 1
                /\ UNCHANGED <<metadata_txt, extract_processed, extract_errors>>
           ELSE LET names == discover_and_sort_audio_files_in_directory_only(disk, directory)
                IN  IF Len(names) = 0
                    THEN /\ extract_errors' = Append(extract_errors,
                               "No audio files found in directory " \o directory)
                         /\ UNCHANGED <<metadata_txt, extract_processed, extract_skipped>>
                    ELSE \E tags \in [{names[i] : i \in 1..Len(names)} -> ExtractedTags],
                            write_ok \in BOOLEAN :
                            IF write_ok
                            THEN /\ metadata_txt' =
                                       [metadata_txt EXCEPT ![directory] =
                                           Some(ExtractedTemplate(disk, directory, names, tags,
                                                    extract_template_only))]
                                 /\ extract_processed' = extract_processed + 1
                                 /\ UNCHANGED <<extract_skipped, extract_errors>>
                            ELSE /\ extract_errors' = Append(extract_errors,
                                       "Failed to write metadata.txt: write failed")
                                 /\ UNCHANGED <<metadata_txt, extract_processed,
                                                extract_skipped>>
    /\ UNCHANGED <<extract_force, extract_template_only, disk, album_directories, extract_pc>>
    /\ UNCHANGED <<parseVars, mergeVars, exportVars, coverVars, templateVars, encodeVars,
                   runVars, argsVars>>

\* The loop is over: the sums are returned.
ExtractReturn ==
    /\ extract_pc = "loop"
    /\ album_idx = Len(album_directories)
    /\ extract_pc' = "returned"
    /\ UNCHANGED <<extract_force, extract_template_only, disk, metadata_txt,
                   album_directories, album_idx, extract_processed, extract_skipped,
                   extract_errors>>
    /\ UNCHANGED <<parseVars, mergeVars, exportVars, coverVars, templateVars, encodeVars,
                   runVars, argsVars>>

ExtractNext == FindAlbumDirectories \/ ExtractSingleDirectory \/ ExtractReturn

---------------------------------------------------------------------------
(* The export command: environment, arguments, and the loop over them *)

\* The components of a path as pathlib keeps them: no empty ones, no ".".
PathParts(path) == SelectSeq(Split(path, "/"), LAMBDA part : part # "" /\ part # ".")

\* os.path.normpath on the components of an absolute path: ".." takes the
\* component before it away.
RECURSIVE NormParts(_, _)
NormParts(parts, done) ==
    IF Len(parts) = 0 THEN done
    ELSE IF Head(parts) = ".."
    THEN NormParts(Tail(parts), IF Len(done) = 0 THEN done ELSE SubSeq(done, 1, Len(done) - 1))
    ELSE NormParts(Tail(parts), Append(done, Head(parts)))

\* os.path.abspath of an absolute path
abspath(path) == "/" \o Join(NormParts(PathParts(path), <<>>), "/")

\* `abs_source.startswith(abs_source_root)`
SourceRootCheck(source_dir, root) == StartsWith(abspath(source_dir), abspath(root))

\* Path.relative_to: None where pathlib raises ValueError.
relative_to(path, other) ==
    LET parts == PathParts(path)
        prefix == PathParts(other)
    IN  IF Len(prefix) <= Len(parts) /\ SubSeq(parts, 1, Len(prefix)) = prefix
        THEN Some(Join(SubSeq(parts, Len(prefix) + 1, Len(parts)), "/"))
        ELSE None

\* resolve_destination_path: None where relative_to raises.
resolve_destination_path(source_dir, root, dest) ==
    LET relative_path == relative_to(source_dir, root)
    IN  IF relative_path.isNone THEN None
        ELSE Some("/" \o Join(PathParts(dest) \o PathParts(relative_path.str), "/"))

\* `not value or value.strip() == ""` of an environment variable
NotSet(value) == ~Truthy(value) \/ Strip(value.str) = ""

\* Most SOURCE_DIRECTORIES arguments of one command line.
MaxSourceArgs == 2

\* The environment and the arguments of the model: a root with and without a
\* trailing slash; the root itself, a directory below it, a sibling whose
\* name starts like the root's, a directory elsewhere, and a path that leaves
\* the root through "..".
SourceRoots == {None, Some(""), Some("/m/src"), Some("/m/src/")}
DestRoots == {None, Some(" "), Some("/m/dst")}
SourceArgs == {"/m/src", "/m/src/a", "/m/src2", "/m/other", "/m/src/../x"}

RECURSIVE ArgLists(_)
ArgLists(n) ==
    IF n = 0 THEN {<<>>}
    ELSE LET shorter == ArgLists(n - 1)
         IN  shorter \cup {Append(args, arg) :
                              args \in {e \in shorter : Len(e) = n - 1}, arg \in SourceArgs}

ArgsIdle ==
    /\ source_root = None
    /\ dest_root = None
    /\ source_directories = <<>>
    /\ validated = 0
    /\ handled = <<>>
    /\ made_dirs = {}
    /\ echoed = <<>>
    /\ args_exit_code = -1
    /\ args_pc = "idle"

\* nargs=-1, required=True: at least one argument.
ArgsInit ==
    /\ source_root \in SourceRoots
    /\ dest_root \in DestRoots
    /\ source_directories \in ArgLists(MaxSourceArgs) \ {<<>>}
    /\ validated = 0
    /\ handled = <<>>
    /\ made_dirs = {}
    /\ echoed = <<>>
    /\ args_exit_code = -1
    /\ args_pc = "environment"

\* click.echo(..., err=True); sys.exit(1)
ExitWith(message) ==
    /\ echoed' = Append(echoed, message)
    /\ args_exit_code' = 1
    /\ args_pc' = "exited"

\* The two environment checks.
CheckEnvironment ==
    /\ args_pc = "environment"
    /\ IF NotSet(source_root)
       THEN ExitWith("Error: MUSIC_SOURCE_ROOT environment variable not set")
       ELSE IF NotSet(dest_root)
       THEN ExitWith("Error: MUSIC_DEST_ROOT environment variable not set")
       ELSE /\ args_pc' = "validate"
            /\ UNCHANGED <<echoed, args_exit_code>>
    /\ UNCHANGED <<source_root, dest_root, source_directories, validated, handled, made_dirs>>
    /\ UNCHANGED <<parseVars, mergeVars, exportVars, coverVars, templateVars, encodeVars,
                   runVars, extractVars>>

\* One pass of the validation loop.
ValidateSourceDirectory ==
    /\ args_pc = "validate"
    /\ validated < Len(source_directories)
    /\ LET source_dir == source_directories[validated + 1]
       IN  IF ~SourceRootCheck(source_dir, source_root.str)
           THEN /\ ExitWith("Error: " \o source_dir \o " is not under MUSIC_SOURCE_ROOT ("
                               \o source_root.str \o ")")
                /\ UNCHANGED validated
           ELSE /\ validated' = validated + 1
                /\ UNCHANGED <<echoed, args_exit_code, args_pc>>
    /\ UNCHANGED <<source_root, dest_root, source_directories, handled, made_dirs>>
    /\ UNCHANGED <<parseVars, mergeVars, exportVars, coverVars, templateVars, encodeVars,
                   runVars, extractVars>>

\* A plausible slip: processing starts once one argument has passed.
ValidationOverAfterFirst(passed, args) == passed >= 1

\* The validation loop has taken every argument.
ValidationOver(passed, args) == passed = Len(args)

\* The validation loop is left; the loop over the source directories starts.
StartProcessing ==
    /\ args_pc = "validate"
    /\ ValidationOver(validated, source_directories)
    /\ args_pc' = "process"
    /\ UNCHANGED <<source_root, dest_root, source_directories, validated, handled, made_dirs,
                   echoed, args_exit_code>>
    /\ UNCHANGED <<parseVars, mergeVars, exportVars, coverVars, templateVars, encodeVars,
                   runVars, extractVars>>

\* One pass of the loop over source_directories.  resolve_destination_path
\* stands outside the try: its ValueError ends the command.  process_directory
\* exits when a tool is missing; otherwise it creates the destination
\* directory and returns, with or without errors, or raises.
ProcessSourceDirectory ==
    /\ args_pc = "process"
    /\ Len(handled) < Len(source_directories)
    /\ LET source_dir == source_directories[Len(handled) + 1]
           dest_dir == resolve_destination_path(source_dir, source_root.str, dest_root.str)
       IN  IF dest_dir.isNone
           THEN /\ args_pc' = "crashed"
                /\ args_exit_code' = 1
                /\ UNCHANGED <<handled, made_dirs, echoed>>
           ELSE \E outcome \in {"returned", "errors", "raised", "tool_missing"} :
                   /\ handled' = Append(handled, source_dir)
                   /\ IF outcome = "tool_missing"
                      THEN /\ args_pc' = "exited"
                           /\ args_exit_code' = 1
                           /\ echoed' = Append(echoed, "Error: opusenc not found in PATH")
                           /\ UNCHANGED made_dirs
                      ELSE /\ made_dirs' = made_dirs \cup {dest_dir.str}
                           /\ echoed' =
                                 IF outcome = "returned" THEN echoed
                                 ELSE IF outcome = "errors"
                                 THEN Append(echoed, "Error: Error processing a file")
                                 ELSE Append(echoed,
                                         "Error: Failed to process directory " \o source_dir)
                           /\ UNCHANGED <<args_pc, args_exit_code>>
    /\ UNCHANGED <<source_root, dest_root, source_directories, validated>>
    /\ UNCHANGED <<parseVars, mergeVars, exportVars, coverVars, templateVars, encodeVars,
                   runVars, extractVars>>

\* The summary, and sys.exit(1) if there were errors.
FinishExport ==
    /\ args_pc = "process"
    /\ Len(handled) = Len(source_directories)
    /\ args_pc' = "finished"
    /\ args_exit_code' = IF Len(echoed) > 0 THEN 1 ELSE 0
    /\ UNCHANGED <<source_root, dest_root, source_directories, validated, handled, made_dirs,
                   echoed>>
    /\ UNCHANGED <<parseVars, mergeVars, exportVars, coverVars, templateVars, encodeVars,
                   runVars, extractVars>>

ArgsNext ==
    \/ CheckEnvironment
    \/ ValidateSourceDirectory
    \/ StartProcessing
    \/ ProcessSourceDirectory
    \/ FinishExport

---------------------------------------------------------------------------
(* What the claims about the cover step speak of. *)

\* The album `cover` field of the directory's metadata.txt, trimmed.
NamedCover ==
    IF DictHas(metadata.album, "cover") THEN Strip(DictGet(metadata.album, "cover")) ELSE ""

\* The cover step of the current directory is done.
CoverStepDone == run_pc = "replaygain"

IsCoverError(e) == StartsWith(e, "Cover file specified")

CoverErrors == SelectSeq(errors, IsCoverError)

\* The errors of the track loop.
TrackErrors == SelectSeq(errors, LAMBDA e : StartsWith(e, "Error processing "))

\* The destination paths a cover step has written.
CoverCopies ==
    {dest_files[i].k : i \in {j \in 1..Len(dest_files) : StartsWith(dest_files[j].v, "cover:")}}

\* The heuristic would find a cover in the source directory.
HeuristicFindsCover == Truthy(find_cover_art(ListDir(source_tree, "")))

(* C11: when the album `cover` field is non-empty after trimming and names *)
(* a file the source directory does not hold, process_directory records    *)
(* exactly one cover error, which names that file, copies no cover image   *)
(* (not the one the prefix heuristic would find either), and goes on to    *)
(* return its result for the tracks: every track is counted as processed,  *)
(* skipped or failed.                                                      *)
C11_MissingCoverIsOneError ==
    (CoverStepDone /\ NamedCover # "" /\ NamedCover \notin TreePaths(source_tree))
        => /\ Len(CoverErrors) = 1
           /\ EndsWith(CoverErrors[1], NamedCover)
           /\ CoverCopies = {}
           /\ ~cover_art_copied
           /\ processed + skipped + Len(TrackErrors) = Len(all_audio_files)

\* A missing named cover next to a cover.png the heuristic would have taken,
\* in a directory whose track was transcoded.
C11_Witness ==
    /\ CoverStepDone
    /\ NamedCover = "c.jpg"
    /\ NamedCover \notin TreePaths(source_tree)
    /\ HeuristicFindsCover
    /\ processed = 1
    /\ Len(CoverErrors) = 1

\* The copy of the named cover raised.
CoverCopyFailed ==
    \E i \in 1..Len(errors) : StartsWith(errors[i], "Error copying specified cover art")

\* The destination still holds, untouched, a file that was there before the run.
HoldsOld(path) == DictHas(dest_files, path) /\ DictGet(dest_files, path) = "old"

\* The named cover is in the destination as `cover` plus its extension.
CopiedAsCover ==
    /\ DictHas(dest_files, "cover" \o SplitExt(NamedCover))
    /\ DictGet(dest_files, "cover" \o SplitExt(NamedCover)) = "cover:" \o NamedCover
    /\ cover_art_copied

(* C12, as claimed: when the album `cover` field names an existing file,   *)
(* process_directory copies it into the destination as `cover` plus the    *)
(* file's extension and creates no destination file under the original     *)
(* cover filename.                                                         *)
C12_Original ==
    (CoverStepDone /\ NamedCover # "" /\ NamedCover \in TreePaths(source_tree))
        => /\ CopiedAsCover
           /\ ~DictHas(dest_files, NamedCover)

(* C12, amended: when the album `cover` field names an existing file, and  *)
(* force is set or the destination holds no file named `cover` plus that   *)
(* file's extension, and the copy itself does not fail, process_directory  *)
(* copies it into the destination as `cover` plus the file's extension;    *)
(* the cover step writes no other destination file, so none under the      *)
(* original cover filename unless that name is itself `cover` plus the     *)
(* extension.                                                              *)
C12_NamedCoverCopiedAsCover ==
    (CoverStepDone /\ NamedCover # "" /\ NamedCover \in TreePaths(source_tree))
        => /\ ((force \/ ~HoldsOld("cover" \o SplitExt(NamedCover))) /\ ~CoverCopyFailed)
                => CopiedAsCover
           /\ CoverCopies \subseteq {"cover" \o SplitExt(NamedCover)}
           /\ (NamedCover # "cover" \o SplitExt(NamedCover) => ~DictHas(dest_files, NamedCover))

\* c.jpg, named by metadata.txt and present, has been copied as cover.jpg
\* under --force, and the destination holds no c.jpg.
C12_Witness ==
    /\ CoverStepDone
    /\ NamedCover = "c.jpg"
    /\ force
    /\ CopiedAsCover
    /\ DictHas(dest_files, "cover.jpg")
    /\ ~DictHas(dest_files, "c.jpg")

---------------------------------------------------------------------------
(* What the claims about the run over the tracks speak of. *)

\* The calls of the track loop: the encoder runs and the copies.
TrackCalls == {i \in 1..Len(calls) : calls[i].tool \in {"opusenc", "copy"}}

\* The metadata.txt of the directory that directly holds the file, parsed;
\* the empty result where that directory has none.
MetadataBeside(audio_file) ==
    LET text == IF Dirname(audio_file) = "" THEN source_tree.text ELSE source_tree.sub_text
    IN  IF text.isNone THEN ParseStart.result ELSE parse_metadata_file(text.str)

\* The per-file overrides that metadata.txt has for the file, under the name
\* the file has in its own directory.
OverridesBeside(audio_file) ==
    LookupFileMetadata(MetadataBeside(audio_file).files, Basename(audio_file))

(* C16: overrides are scoped per album directory.  Every track is merged   *)
(* with the album-wide fields and the per-file section of the metadata.txt *)
(* that lies in the directory directly holding the track, and with nothing *)
(* from the metadata.txt of another directory.                             *)
C16_OverridesScopedPerAlbumDirectory ==
    \A i \in TrackCalls :
        /\ calls[i].album = MetadataBeside(calls[i].file).album
        /\ calls[i].overrides = OverridesBeside(calls[i].file)

\* The directory was found, holds audio files, and its metadata.txt names a
\* file that is not among them.
ValidationFails ==
    /\ attempted > 0
    /\ source_tree.exists
    /\ Len(all_audio_files) > 0
    /\ ~validate_metadata_files(metadata, all_audio_files).isNone

\* process_directory is not running: between two directories, or after the run.
BetweenDirectories == run_pc \in {"export", "finished", "exited"}

(* C17: a validation failure is collected into the error list of the       *)
(* directory and does not abort it: once the directory is done, its result *)
(* holds the error and every audio file of it has been taken and counted   *)
(* as processed, skipped or failed.                                        *)
C17_ValidationFailureCollected ==
    (BetweenDirectories /\ ValidationFails)
        => /\ Len(errors) > 0
           /\ audio_idx = Len(all_audio_files)
           /\ processed + skipped + Len(TrackErrors) = Len(all_audio_files)

\* The run is over: export has printed its summary, or the process has exited.
RunEnded == run_pc \in {"finished", "exited"}

(* C18: an export run always completes the full input set.  When the run   *)
(* ends no source directory is left untaken, every audio file of the last  *)
(* directory has been attempted, and a run that did not exit with status 0 *)
(* has recorded an error.                                                  *)
C18_FullInputSetAttempted ==
    RunEnded
        => /\ dirs_left = 0
           /\ source_tree.exists => audio_idx = Len(all_audio_files)
           /\ exit_code # 0 => Len(total_errors) > 0

\* The output path of the track the loop takes next.
NextOutputPath ==
    LET audio_file == all_audio_files[audio_idx + 1]
    IN  get_output_filename(audio_file,
            IF is_lossless_format(audio_file) THEN "lossless" ELSE "lossy")

\* The track loop has taken one more file.
TrackTaken == run_pc = "tracks" /\ audio_idx' = audio_idx + 1

(* C19: with force off, a track whose output path is already in the        *)
(* destination is counted as skipped and not as processed, leaves no       *)
(* error, and no encoder or copy runs for it: the destination is as it was.*)
C19_ExistingOutputSkipped ==
    [][(TrackTaken /\ ~force /\ DictHas(dest_files, NextOutputPath))
          => /\ skipped' = skipped + 1
             /\ processed' = processed
             /\ errors' = errors
             /\ calls' = calls
             /\ dest_files' = dest_files]_vars

\* A track was skipped with force off, and the earlier output is still there.
C19_Witness ==
    /\ run_pc = "tracks"
    /\ ~force
    /\ skipped = 1
    /\ calls = <<>>
    /\ DictHas(dest_files, "a.opus")
    /\ DictGet(dest_files, "a.opus") = "old"

\* The loudness runs among the calls of the current directory.
RsgainCalls == {i \in 1..Len(calls) : calls[i].tool = "rsgain"}

---------------------------------------------------------------------------
(* C26: in the result of merge_metadata every per-file override wins for   *)
(* its own field name: each key of the file scope is in the result with    *)
(* the file scope's value, `albumartist` included when the file scope      *)
(* also overrides an album-scope `artist`, in whichever order the two      *)
(* were written.                                                           *)
C26_FileOverridesWin ==
    merge_pc = "done"
        => \A i \in 1..Len(file_metadata) :
              /\ DictHas(merged, file_metadata[i].k)
              /\ DictGet(merged, file_metadata[i].k) = file_metadata[i].v

---------------------------------------------------------------------------
\* A valid header stands among the lines the parser has taken so far.
HeaderAccepted == \E j \in 1..line_idx : IsValidHeaderLine(j)

(* C27: once parse_metadata_file has accepted a line as a valid file       *)
(* section header, no later line changes album scope, also when the name   *)
(* of the header is empty after trimming.                                  *)
C27_AlbumScopeClosedAfterHeader ==
    [][(parse_pc = "loop" /\ line_idx' = line_idx + 1 /\ HeaderAccepted)
          => result'.album = result.album]_vars

---------------------------------------------------------------------------
\* The output path of the i-th discovered audio file.
OutputPathOf(i) ==
    get_output_filename(all_audio_files[i],
        IF is_lossless_format(all_audio_files[i]) THEN "lossless" ELSE "lossy")

\* Nothing in the destination is older than the run.
DestinationWasEmpty == \A i \in 1..Len(dest_files) : dest_files[i].v # "old"

(* C28: within one process_directory run distinct source audio files have  *)
(* distinct output paths, so no file is skipped or overwritten because of  *)
(* another file of the run: with force off and a destination that was      *)
(* empty, nothing is skipped.                                              *)
C28_OutputPathsDistinct ==
    attempted > 0
        => /\ \A i, j \in 1..Len(all_audio_files) :
                 i # j => OutputPathOf(i) # OutputPathOf(j)
           /\ (~force /\ DestinationWasEmpty) => skipped = 0

---------------------------------------------------------------------------
\* process_directory has returned its result for a directory with audio files
\* or without.
DirectoryReturned ==
    /\ run_pc \in {"export", "finished"}
    /\ attempted > 0
    /\ source_tree.exists
    /\ validate_metadata_files(metadata, all_audio_files).isNone

\* The audio files found under the source directory.
AudioFilesFound == Len(source_tree.lossless) + Len(source_tree.lossy)

(* C29: every discovered audio file is accounted for exactly once.  While  *)
(* the track loop runs, processed + skipped + the number of `Error         *)
(* processing` entries is the number of files taken; when process_directory*)
(* returns it is the number of audio files found under the source          *)
(* directory; and no file is reached twice by the encoder or the copy.     *)
C29_EveryFileAccountedOnce ==
    /\ run_pc \in {"tracks", "replaygain"}
          => processed + skipped + Len(TrackErrors) = audio_idx
    /\ DirectoryReturned
          => processed + skipped + Len(TrackErrors) = AudioFilesFound
    /\ \A i, j \in TrackCalls : i # j => calls[i].file # calls[j].file

\* A returned directory of two files: one skipped, one failed.
C29_Witness ==
    /\ DirectoryReturned
    /\ AudioFilesFound = 2
    /\ skipped = 1
    /\ Len(TrackErrors) = 1

---------------------------------------------------------------------------
(* What the claim about the cover heuristic speaks of. *)

\* The directories of the source tree that directly hold an audio file.
AlbumDirs ==
    {Dirname(f) : f \in {source_tree.lossless[i] : i \in 1..Len(source_tree.lossless)}
                        \cup {source_tree.lossy[i] : i \in 1..Len(source_tree.lossy)}}

\* What the heuristic selects from the directory's own listing.
Selected(dir) == find_cover_art(ListDir(source_tree, dir))

\* Where the selected image of a directory belongs in the destination.
SelectedDest(dir) == PathJoin(dir, Selected(dir).str)

\* The copy of the directory's cover failed.
DetectedCopyFailed(dir) ==
    \E i \in 1..Len(errors) :
        errors[i] = "Error copying cover art from " \o dir \o ": copy failed"

\* The destination holds the directory's own selected image, copied by this run.
SelectedCopied(dir) ==
    /\ DictHas(dest_files, SelectedDest(dir))
    /\ DictGet(dest_files, SelectedDest(dir)) = "cover:" \o SelectedDest(dir)

(* C24, as claimed: with no cover override, each directory that directly   *)
(* holds audio files has the image selected from its own listing copied    *)
(* into the corresponding destination subdirectory (a copy that the system *)
(* fails to carry out aside), and no image of one directory is copied for  *)
(* another.                                                                *)
C24_Original ==
    (CoverStepDone /\ NamedCover = "")
        => /\ \A dir \in AlbumDirs :
                 (Truthy(Selected(dir)) /\ ~DetectedCopyFailed(dir)) => SelectedCopied(dir)
           /\ CoverCopies \subseteq {SelectedDest(dir) : dir \in AlbumDirs}

(* C24, amended: with no cover override, the heuristic runs once for each  *)
(* directory that directly holds audio files, on that directory's own      *)
(* listing; the selected image is copied into the corresponding            *)
(* destination subdirectory when force is set or no file of that name is   *)
(* there already, and the copy does not fail; the cover step writes        *)
(* nothing else, so no image is copied for a directory other than its own  *)
(* and none for a directory without audio files of its own.                *)
C24_HeuristicPerAlbumDirectory ==
    (CoverStepDone /\ NamedCover = "")
        => /\ \A dir \in AlbumDirs :
                 (/\ Truthy(Selected(dir))
                  /\ force \/ ~HoldsOld(SelectedDest(dir))
                  /\ ~DetectedCopyFailed(dir))
                    => SelectedCopied(dir)
           /\ CoverCopies \subseteq
                 {SelectedDest(dir) : dir \in {d \in AlbumDirs : Truthy(Selected(d))}}
           /\ cover_art_copied <=> CoverCopies # {}

\* Two album directories, each with an image of its own, each copied to its
\* own place.
C24_Witness ==
    /\ CoverStepDone
    /\ NamedCover = ""
    /\ AlbumDirs = {"", "s"}
    /\ Selected("").str = "cover.png"
    /\ Selected("s").str = "folder.jpg"
    /\ CoverCopies = {"cover.png", "s/folder.jpg"}

---------------------------------------------------------------------------
(* What the claims about extract-metadata speak of. *)

\* The audio files a directory holds directly: its plain files whose
\* extension, in lower case, is one of the audio extensions.
DirectAudio(dir) ==
    {disk.entries[dir][i].name : i \in
        {j \in 1..Len(disk.entries[dir]) :
            /\ disk.entries[dir][j].is_file
            /\ Lower(Suffix(disk.entries[dir][j].name)) \in audio_extensions}}

\* find_album_directories has returned.
WalkDone ==
    /\ extract_pc \in {"loop", "returned", "raised"}
    /\ \A i \in 1..Len(extract_errors) :
          ~StartsWith(extract_errors[i], "Failed to find album directories")

(* C21: find_album_directories returns exactly the directories of the      *)
(* subtree, root included, that hold at least one audio file directly,     *)
(* each once: none whose audio files are all further down, none without    *)
(* audio files.                                                            *)
C21_ExactlyDirectoriesWithDirectAudio ==
    WalkDone
        => /\ {album_directories[i] : i \in 1..Len(album_directories)}
                 = {dir \in DirsOf(disk) : DirectAudio(dir) # {}}
           /\ \A i, j \in 1..Len(album_directories) :
                 i # j => album_directories[i] # album_directories[j]

\* The root and s/t are returned; s, whose audio files are all in s/t, is not.
C21_Witness ==
    /\ WalkDone
    /\ disk = DeepDisk
    /\ album_directories = <<"", "s/t">>
    /\ DirectAudio("s") = {}

\* The loop takes the next album directory.
AlbumTaken == extract_pc = "loop" /\ album_idx' = album_idx + 1

\* The album directory the loop takes next has a metadata.txt.
NextHasMetadata == ~metadata_txt[album_directories[album_idx + 1]].isNone

\* No metadata.txt other than the one of the given directory changes.
OthersKept(dir) ==
    \A other \in DirsOf(disk) \ {dir} : metadata_txt'[other] = metadata_txt[other]

(* C22: with force off, extract-metadata never modifies an existing         *)
(* metadata.txt: the album directory is counted as skipped, not as          *)
(* processed, with no error, and every file is as it was.  With force on    *)
(* the directory is not skipped and its metadata.txt is written anew with   *)
(* the template (a write that fails leaves an error instead).               *)
C22_ExistingKeptUnlessForced ==
    [][/\ ~extract_force =>
             \A dir \in DirsOf(disk) :
                 ~metadata_txt[dir].isNone => metadata_txt'[dir] = metadata_txt[dir]
       /\ (AlbumTaken /\ NextHasMetadata /\ ~extract_force)
             => /\ extract_skipped' = extract_skipped + 1
                /\ extract_processed' = extract_processed
                /\ extract_errors' = extract_errors
                /\ metadata_txt' = metadata_txt
       /\ (AlbumTaken /\ NextHasMetadata /\ extract_force)
             => /\ extract_skipped' = extract_skipped
                /\ OthersKept(album_directories[album_idx + 1])
                /\ \/ /\ extract_processed' = extract_processed + 1
                      /\ extract_errors' = extract_errors
                      /\ StartsWith(metadata_txt'[album_directories[album_idx + 1]].str,
                                    "# This file contains metadata overrides")
                   \/ /\ extract_processed' = extract_processed
                      /\ Len(extract_errors') = Len(extract_errors) + 1
                      /\ metadata_txt' = metadata_txt]_vars

\* Force off: the root's metadata.txt was kept and counted as skipped, the
\* one of s/t, which had none, was written.
C22_Witness ==
    /\ ~extract_force
    /\ disk = DeepDisk
    /\ extract_pc = "returned"
    /\ extract_skipped = 1
    /\ extract_processed = 1
    /\ metadata_txt[""] = Some("old")
    /\ ~metadata_txt["s/t"].isNone

\* The names of the `file: <name>:` sections of a text, in its order.
SectionsOf(text) ==
    LET headers == SelectSeq(Split(text, "\n"),
                       LAMBDA line : StartsWith(line, "file: ") /\ EndsWith(line, ":"))
    IN  [i \in 1..Len(headers) |-> Substr(headers[i], 7, Len(headers[i]) - 1)]

\* The metadata.txt of the directory was written by this run.
WrittenNow(dir) == ~metadata_txt[dir].isNone /\ metadata_txt[dir].str # "old"

---------------------------------------------------------------------------
(* What the claims about the arguments of export speak of. *)

\* Both environment variables are set.
EnvironmentSet == ~NotSet(source_root) /\ ~NotSet(dest_root)

\* The directory is MUSIC_SOURCE_ROOT itself or lies below it.
UnderSourceRoot(source_dir) ==
    \/ abspath(source_dir) = abspath(source_root.str)
    \/ StartsWith(abspath(source_dir), abspath(source_root.str) \o "/")

\* The command is over.
CommandEnded == args_pc \in {"finished", "exited", "crashed"}

\* The command has reported that the directory is not under the root.
Rejected(source_dir) ==
    \E i \in 1..Len(echoed) :
        StartsWith(echoed[i], "Error: " \o source_dir \o " is not under MUSIC_SOURCE_ROOT")

(* C23: export rejects every source directory argument that is not         *)
(* MUSIC_SOURCE_ROOT itself or a directory below it: nothing is processed, *)
(* and the command ends with status 1 after reporting that a directory is  *)
(* not under MUSIC_SOURCE_ROOT.                                            *)
C23_OutsideRootRejected ==
    (/\ args_pc # "idle"
     /\ EnvironmentSet
     /\ \E i \in 1..Len(source_directories) : ~UnderSourceRoot(source_directories[i]))
        => /\ handled = <<>>
           /\ made_dirs = {}
           /\ args_pc # "finished"
           /\ CommandEnded
                 => /\ args_exit_code = 1
                    /\ \E i \in 1..Len(source_directories) :
                          /\ ~UnderSourceRoot(source_directories[i])
                          /\ Rejected(source_directories[i])

\* An argument fails the check export makes on it.
FailsCheck(source_dir) == ~SourceRootCheck(source_dir, source_root.str)

(* C30: export validates all source directory arguments before it          *)
(* processes any of them.  Nothing is processed and no destination         *)
(* directory is created before every argument has passed the check; if any *)
(* argument fails it, nothing is ever processed or created, valid          *)
(* arguments before the failing one included, and the command exits with   *)
(* status 1 on the first one that fails.                                   *)
C30_ValidationBeforeProcessing ==
    (args_pc # "idle" /\ EnvironmentSet)
        => /\ (handled # <<>> \/ made_dirs # {} \/ args_pc \in {"process", "finished", "crashed"})
                 => /\ validated = Len(source_directories)
                    /\ \A i \in 1..Len(source_directories) : ~FailsCheck(source_directories[i])
           /\ (\E i \in 1..Len(source_directories) : FailsCheck(source_directories[i]))
                 => /\ handled = <<>>
                    /\ made_dirs = {}
                    /\ CommandEnded
                          => /\ args_pc = "exited"
                             /\ args_exit_code = 1
                             /\ FailsCheck(source_directories[validated + 1])
                             /\ Rejected(source_directories[validated + 1])

\* A valid argument followed by one that fails the check: the command has
\* exited on the second and nothing was done for the first.
C30_Witness ==
    /\ args_pc = "exited"
    /\ Len(source_directories) = 2
    /\ validated = 1
    /\ source_directories[1] = "/m/src/a"
    /\ FailsCheck(source_directories[2])
    /\ handled = <<>>
    /\ made_dirs = {}

---------------------------------------------------------------------------
(* Specifications: one per function under study.  The functions share no   *)
(* state; the variables of the others stay idle.                           *)

\* parse_metadata_file on every text of at most MaxLines lines of LinePool.
InitParse == ParseInit /\ MergeIdle /\ ExportIdle /\ CoverIdle /\ TemplateIdle
    /\ EncodeIdle /\ RunIdle /\ ExtractIdle /\ ArgsIdle
SpecParse == InitParse /\ [][ParseNext]_vars

\* merge_metadata on every combination of the three layers.
InitMerge == MergeInit /\ ParseIdle /\ ExportIdle /\ CoverIdle /\ TemplateIdle
    /\ EncodeIdle /\ RunIdle /\ ExtractIdle /\ ArgsIdle
SpecMerge == InitMerge /\ [][MergeMetadata]_vars

\* process_directory from the validation of metadata.txt to the end of the
\* track loop, on every small directory and metadata.txt.
InitExport == ExportInit /\ ParseIdle /\ MergeIdle /\ CoverIdle /\ TemplateIdle
    /\ EncodeIdle /\ RunIdle /\ ExtractIdle /\ ArgsIdle
SpecExport == InitExport /\ [][ExportNext]_vars

\* find_cover_art on every listing of at most MaxListing files.
InitCover == CoverInit /\ ParseIdle /\ MergeIdle /\ ExportIdle /\ TemplateIdle
    /\ EncodeIdle /\ RunIdle /\ ExtractIdle /\ ArgsIdle
SpecCover == InitCover /\ [][FindCoverArt]_vars

\* generate_metadata_template, then parse_metadata_file on what it rendered.
InitTemplate == TemplateInit /\ ParseIdle /\ MergeIdle /\ ExportIdle /\ CoverIdle
    /\ EncodeIdle /\ RunIdle /\ ExtractIdle /\ ArgsIdle
SpecTemplate == InitTemplate /\ [][TemplateNext]_vars

\* build_opusenc_command and apply_metadata_to_file on merged dicts.
InitEncode == EncodeInit /\ ParseIdle /\ MergeIdle /\ ExportIdle /\ CoverIdle /\ TemplateIdle
    /\ RunIdle /\ ExtractIdle /\ ArgsIdle
SpecEncode == InitEncode /\ [][EncodeNext]_vars

\* export over one or two source directories.
InitRun == RunInit /\ ParseIdle /\ MergeIdle /\ ExportIdle /\ CoverIdle /\ TemplateIdle
    /\ EncodeIdle /\ ExtractIdle /\ ArgsIdle
SpecRun == InitRun /\ [][RunNext]_vars

\* extract_metadata_from_directory on every tree of the model, with and
\* without earlier metadata.txt files.
InitExtract == ExtractInit /\ ParseIdle /\ MergeIdle /\ ExportIdle /\ CoverIdle /\ TemplateIdle
    /\ EncodeIdle /\ RunIdle /\ ArgsIdle
SpecExtract == InitExtract /\ [][ExtractNext]_vars

\* The export command on every environment and argument list of the model.
InitArgs == ArgsInit /\ ParseIdle /\ MergeIdle /\ ExportIdle /\ CoverIdle /\ TemplateIdle
    /\ EncodeIdle /\ RunIdle /\ ExtractIdle
SpecArgs == InitArgs /\ [][ArgsNext]_vars

=============================================================================
